---------------------------- MODULE Spec2Model ----------------------------
(***************************************************************************)
(* State-machine model of the stage3 download pipeline                     *)
(* (src/modules/downloadstage3/main.py): run() and the helpers it calls.   *)
(* One action per statement group of run(); loops (progress hook, manifest *)
(* lines, hash chunks, archive members, command polling) take one step per *)
(* iteration.  The supervising process may die at any moment (ParentDies). *)
(***************************************************************************)
EXTENDS Integers, Sequences, FiniteSets, TLC

\* ------------------------------------------------------------- bounds
MaxBytes   == 3   \* largest archive size / Content-Length, in bytes
BlockSize  == 2   \* bytes per urlretrieve block and per hash chunk (stands for 8192)
MaxLines   == 4   \* lines of a DIGESTS file
MaxMembers == 2   \* members of the archive
MaxPartitions == 3 \* records in globalstorage "partitions"
MaxTotal   == 2   \* packages in all the operations of a gentoopkg job
MaxEntries == 2   \* entries of the operations list
MaxKeys    == 2   \* operation keys of one entry

\* ---------------------------------------------------------- constants
SupervisorPids == {100}                         \* pid of the live supervisor
EEXIST == 17                                    \* errno tolerated by the extractor
expected_key_id == "13EBBDBEDE7A12775DFDB1BABB572E0E2D182910"
OTHER_KEY       == "DCD05B71EAB94199527F44ACDB6B8C1F96D8BF6D"

Artifacts == {"tar", "sha256", "asc", "digests"}
Stages    == {"checksum", "sig", "manifest"}
Commands  == {"rsync", "sha256sum", "getuto", "webrsync", "emerge", "emerge1"}
Terminal  == {"returned", "exited", "raised"}

\* global storage values the host may supply
URLs  == {<<>>, <<"/">>, <<"/", "/">>, <<"u">>, <<"u", "/">>}
Names == {"", "stage3-openrc.tar.xz", "stage3-systemd.tar.xz"}
Roots == {"", "/target"}

\* digests of the downloaded archive, and a digest of something else
SHA256_OF_TAR  == "d256"
SHA512_OF_TAR  == "d512"
BLAKE2B_OF_TAR == "db2b"
STAGE3 == "stage3"          \* os.path.basename(stage3_path)
OTHERFILE == "other"        \* another file listed in DIGESTS

VARIABLES
  pc,          \* control point of run()
  gs,          \* libcalamares.globalstorage
  ppid,        \* os.getppid()
  files,       \* /mnt/<name>{,.sha256,.asc,.DIGESTS}: absent | stale | partial | complete
  fetch,       \* outcome of each urlretrieve of this run: none | ok | failed
  stage,       \* verification stage results: none | passed | failed | skipped
  dl,          \* archive transfer: Content-Length, bytes sent, hook call count
  tar_size,    \* bytes of the archive on disk
  sha_stated,  \* digest stated in the .sha256 file
  progress,    \* last value given to job.setprogress, as <<numerator, denominator>>
  cmd,         \* command _safe_run is running
  child,       \* the Popen child: none | running | exit0 | exit1 | terminated | killed
  gem,         \* gemato call: target file, CompletedProcess / exception
  success,     \* last (success, msg) returned by verify_pgp_signature_gemato
  msg,
  parse,       \* parse_digests_file: file_hashes, current_hash_type, lines read
  hashing,     \* verify_stage3_with_digests loop: pending items, all_valid, chunks hashed
  tar,         \* extraction: opened, total_members, cursor i, extracted, collisions
  trace,       \* external effects of this run, in order
  exit_status, \* status passed to sys.exit, 0 while running or returned
  orphaned,    \* history: a loop iteration began while os.getppid() was 1
  extract_path, \* the target directory: what lies at each path the archive names;
               \* and, for a repeated extraction, the pass and the tree after the first
  partitions,  \* globalstorage "partitions": the list, once a module has read it
  dracut_conf, \* lines of etc/dracut.conf.d/10-calamares.conf
  \* gentoopkg
  configuration,      \* gentoopkg: skip_unavailable, globalstorage "hasInternet", and
                      \* sync_method and gentoo_world_update once they have been read
  at,                 \* gentoopkg's run(): control point; entries, keys of the entry and
                      \* packages of the list gone through; the current key, the length
                      \* of its list, packages of later lists, keys the entry used
  total_packages,     \* the module's global counters
  completed_packages,
  group_packages,
  mode_packages,
  reported,           \* last value given to job.setprogress by gentoopkg, as <<num, den>>
  calls,              \* commands the last step of gentoopkg gave to check_target_env_call
  result,             \* what gentoopkg's run() returned
  \* dracut_gentoo
  dg,                 \* dracut_gentoo's run(): control point, initramfs found, commands run,
                      \* whether configure_openrc_dmcrypt was called, return value
  dmcrypt             \* entries appended to etc/conf.d/dmcrypt

vars == <<pc, gs, ppid, files, fetch, stage, dl, tar_size, sha_stated, progress,
          cmd, child, gem, success, msg, parse, hashing, tar, trace, exit_status,
          orphaned, extract_path, partitions, dracut_conf,
          configuration, at, total_packages, completed_packages, group_packages,
          mode_packages, reported, calls, result, dg, dmcrypt>>

\* the variables of each module
gentoopkg_vars == <<configuration, at, total_packages, completed_packages,
                    group_packages, mode_packages, reported, calls, result>>
dracut_gentoo_vars == <<dg, dmcrypt>>
other_jobs == <<gentoopkg_vars, dracut_gentoo_vars>>

\* ------------------------------------------------------------ helpers
NoDl      == [size |-> 0, nread |-> 0, count |-> 0]
NoGem     == [target |-> "none", launch |-> "none", rc |-> 0, signer |-> "none", out |-> {}]
NoParse   == [file_hashes |-> [f \in {STAGE3, OTHERFILE} |-> <<>>],
              current_hash_type |-> "None", lines |-> 0, nlines |-> 0, text |-> <<>>]
NoHashing == [todo |-> <<>>, all_valid |-> TRUE, chunks |-> 0, done |-> <<>>]
NoTar     == [open |-> FALSE, total_members |-> 0, i |-> 0, extracted |-> 0, collisions |-> 0,
              members |-> <<>>, errno |-> 0]

\* the paths an archive may name
Paths == 1 .. MaxMembers

\* a target directory of which nothing has been looked at yet / an empty one
UnseenTree == [p \in Paths |-> "unknown"]
EmptyTree  == [p \in Paths |-> "absent"]

CeilDiv(a, b) == (a + b - 1) \div b

\* int(x / y) of Python for y # 0: truncation toward zero
TruncDiv(x, y) ==
  IF (x >= 0) = (y > 0) THEN (IF x >= 0 THEN x ELSE -x) \div (IF y > 0 THEN y ELSE -y)
  ELSE -((IF x >= 0 THEN x ELSE -x) \div (IF y > 0 THEN y ELSE -y))

\* str.rstrip('/')
RECURSIVE rstrip(_)
rstrip(s) ==
  IF s # <<>> /\ s[Len(s)] = "/" THEN rstrip(SubSeq(s, 1, Len(s) - 1)) ELSE s

\* os.path.exists / os.path.isfile on a /mnt file
exists(f) == files[f] # "absent"

\* sys.exit(1)
Exit1 == /\ pc' = "exited"
         /\ exit_status' = 1

\* an exception that leaves run()
Raise == /\ pc' = "raised"
         /\ exit_status' = exit_status

\* _check_parent_alive: does the caller die here?
parent_dead == ppid = 1

\* globalstorage "partitions" before any module has read it
NoPartitions == [fixed |-> FALSE, list |-> <<>>]

\* gentoopkg and dracut_gentoo have not started
NoConfiguration == [skip_unavailable |-> FALSE, hasInternet |-> FALSE,
                    sync_method |-> "unread", gentoo_world_update |-> "unread"]
NotStarted == [pc |-> "idle", entry |-> 0, key |-> 0, package |-> 0, cur |-> "none",
               n |-> 0, left |-> 0, used |-> {}, all_str |-> FALSE, seen_dict |-> FALSE]
NoDg == [pc |-> "idle", initramfs |-> "none", ran |-> <<>>, configured |-> FALSE, ret |-> "none"]

OtherJobsIdle ==
  /\ configuration = NoConfiguration
  /\ at = NotStarted
  /\ total_packages = 0
  /\ completed_packages = 0
  /\ group_packages = 0
  /\ mode_packages = "None"
  /\ reported = <<>>
  /\ calls = <<>>
  /\ result = "none"
  /\ dg = NoDg
  /\ dmcrypt = <<>>

\* ---------------------------------------------------------------- Init
Init ==
  /\ pc = "start"
  /\ gs \in [livecd : {"unset", "yes", "no"},
             has_url : BOOLEAN, url : URLs,
             has_name : BOOLEAN, name : Names,
             root : Roots]
  /\ (~gs.has_url => gs.url = <<>>)
  /\ (~gs.has_name => gs.name = "")
  /\ ppid \in SupervisorPids
  /\ files \in [Artifacts -> {"absent", "stale"}]
  /\ fetch = [a \in Artifacts |-> "none"]
  /\ stage = [s \in Stages |-> "none"]
  /\ dl = NoDl
  /\ tar_size = 0
  /\ sha_stated = "none"
  /\ progress = <<0, 1>>
  /\ cmd = "none"
  /\ child = "none"
  /\ gem = NoGem
  /\ success = FALSE
  /\ msg = "none"
  /\ parse = NoParse
  /\ hashing = NoHashing
  /\ tar = NoTar
  /\ trace = <<>>
  /\ exit_status = 0
  /\ orphaned = FALSE
  /\ extract_path = [tree |-> UnseenTree, pass |-> 1, once |-> UnseenTree]
  /\ partitions = NoPartitions
  /\ dracut_conf = <<>>
  /\ OtherJobsIdle

\* the supervisor exits; the process is re-parented to init
ParentDies ==
  /\ pc \notin Terminal
  /\ ppid # 1
  /\ ppid' = 1
  /\ UNCHANGED <<orphaned, extract_path>>
  /\ UNCHANGED <<pc, gs, files, fetch, stage, dl, tar_size, sha_stated, progress,
                 cmd, child, gem, success, msg, parse, hashing, tar, trace, exit_status>>
  /\ UNCHANGED <<partitions, dracut_conf, other_jobs>>

\* --------------------------------------------------- run(): entry
\* mutant: the GENTOO_LIVECD switch is not honoured
live_mode_never == FALSE

\* run(): GENTOO_LIVECD is set and equals "yes"
live_mode == gs.livecd = "yes"

\* run(), live branch: copy /run/rootfsbase with rsync through _safe_run
RunLive ==
  /\ pc = "start"
  /\ live_mode
  /\ IF gs.root = ""
       THEN Raise /\ cmd' = cmd
       ELSE /\ pc' = "saferun_entry"
            /\ cmd' = "rsync"
            /\ exit_status' = exit_status
  /\ UNCHANGED <<orphaned, extract_path>>
  /\ UNCHANGED <<gs, ppid, files, fetch, stage, dl, tar_size, sha_stated, progress,
                 child, gem, success, msg, parse, hashing, tar, trace>>
  /\ UNCHANGED <<partitions, dracut_conf, other_jobs>>

\* mutant: the URL is tested for emptiness before its trailing slashes are stripped
keys_rejected_unstripped ==
  \/ ~gs.has_url
  \/ ~gs.has_name
  \/ gs.url = <<>>
  \/ gs.name = ""

\* _check_global_storage_keys: TRUE when it raises
keys_rejected ==
  \/ ~gs.has_url
  \/ ~gs.has_name
  \/ rstrip(gs.url) = <<>>
  \/ gs.name = ""

\* run(), non-live branch up to the rootMountPoint check
RunNonLive ==
  /\ pc = "start"
  /\ ~live_mode
  /\ IF keys_rejected \/ gs.root = ""
       THEN Raise
       ELSE pc' = "remove_stale" /\ exit_status' = exit_status
  /\ UNCHANGED <<orphaned, extract_path>>
  /\ UNCHANGED <<gs, ppid, files, fetch, stage, dl, tar_size, sha_stated, progress,
                 cmd, child, gem, success, msg, parse, hashing, tar, trace>>
  /\ UNCHANGED <<partitions, dracut_conf, other_jobs>>

\* os.remove of the four /mnt files left by an earlier run
RemoveStale ==
  /\ pc = "remove_stale"
  /\ files' = [a \in Artifacts |-> "absent"]
  /\ pc' = "fetch_tar"
  /\ UNCHANGED <<orphaned, extract_path>>
  /\ UNCHANGED <<gs, ppid, fetch, stage, dl, tar_size, sha_stated, progress,
                 cmd, child, gem, success, msg, parse, hashing, tar, trace, exit_status>>
  /\ UNCHANGED <<partitions, dracut_conf, other_jobs>>

\* ------------------------------------------------ Transfer Client
\* urlretrieve(full_tarball_url, download_path, _progress_hook): open the URL
FetchTar ==
  /\ pc = "fetch_tar"
  /\ trace' = Append(trace, <<"fetch", "tar">>)
  /\ \/ /\ fetch' = [fetch EXCEPT !["tar"] = "failed"]      \* HTTPError / URLError
        /\ Raise
        /\ UNCHANGED <<files, dl>>
     \/ \E size \in {-1} \cup (0 .. MaxBytes), nread \in 0 .. MaxBytes :
          /\ (size >= 0 => nread <= size)
          /\ dl' = [size |-> size, nread |-> nread, count |-> 0]
          /\ files' = [files EXCEPT !["tar"] = "partial"]
          /\ pc' = "dl_hook"
          /\ UNCHANGED <<fetch, exit_status>>
  /\ UNCHANGED <<orphaned, extract_path>>
  /\ UNCHANGED <<gs, ppid, stage, tar_size, sha_stated, progress,
                 cmd, child, gem, success, msg, parse, hashing, tar>>
  /\ UNCHANGED <<partitions, dracut_conf, other_jobs>>

\* percent of _progress_hook (total_size # 0)
hook_percent(count, block_size, total_size) ==
  LET percent == TruncDiv(count * block_size * 100, total_size)
  IN  IF percent > 100 THEN 100 ELSE percent

\* one call of _progress_hook(count, bs, size), then the next block read
DlHook ==
  /\ pc = "dl_hook"
  /\ IF parent_dead
       THEN Exit1 /\ UNCHANGED <<progress, dl, files, fetch, tar_size>>
     ELSE IF dl.size = 0
       THEN /\ Raise                                        \* ZeroDivisionError
            /\ fetch' = [fetch EXCEPT !["tar"] = "failed"]
            /\ UNCHANGED <<progress, dl, files, tar_size>>
     ELSE
       /\ progress' = <<hook_percent(dl.count, BlockSize, dl.size), 2>>
       /\ IF dl.count < CeilDiv(dl.nread, BlockSize)
            THEN \/ /\ dl' = [dl EXCEPT !.count = dl.count + 1]
                    /\ pc' = "dl_hook"
                    /\ UNCHANGED <<files, fetch, tar_size, exit_status>>
                 \/ /\ Raise                                \* connection lost
                    /\ fetch' = [fetch EXCEPT !["tar"] = "failed"]
                    /\ UNCHANGED <<dl, files, tar_size>>
          ELSE IF dl.size >= 0 /\ dl.nread < dl.size
            THEN /\ Raise                                   \* ContentTooShortError
                 /\ fetch' = [fetch EXCEPT !["tar"] = "failed"]
                 /\ UNCHANGED <<dl, files, tar_size>>
          ELSE /\ files' = [files EXCEPT !["tar"] = "complete"]
               /\ fetch' = [fetch EXCEPT !["tar"] = "ok"]
               /\ tar_size' = dl.nread
               /\ dl' = NoDl
               /\ pc' = "tar_fetched"
               /\ exit_status' = exit_status
  /\ orphaned' = (orphaned \/ parent_dead)
  /\ UNCHANGED extract_path
  /\ UNCHANGED <<gs, ppid, stage, sha_stated, cmd, child, gem, success, msg,
                 parse, hashing, tar, trace>>
  /\ UNCHANGED <<partitions, dracut_conf, other_jobs>>

\* setprogress(30); urlretrieve(full_sha256_url, sha256_path); setprogress(35)
FetchSha ==
  /\ pc = "tar_fetched"
  /\ trace' = Append(trace, <<"fetch", "sha256">>)
  /\ \/ /\ fetch' = [fetch EXCEPT !["sha256"] = "failed"]
        /\ \E left \in {"absent", "partial"} :
             files' = [files EXCEPT !["sha256"] = left]
        /\ progress' = <<30, 1>>
        /\ Raise
        /\ UNCHANGED sha_stated
     \/ /\ fetch' = [fetch EXCEPT !["sha256"] = "ok"]
        /\ files' = [files EXCEPT !["sha256"] = "complete"]
        /\ sha_stated' \in {SHA256_OF_TAR, "dbad"}
        /\ progress' = <<35, 1>>
        /\ pc' = "fetch_asc"
        /\ exit_status' = exit_status
  /\ UNCHANGED <<orphaned, extract_path>>
  /\ UNCHANGED <<gs, ppid, stage, dl, tar_size, cmd, child, gem, success, msg,
                 parse, hashing, tar>>
  /\ UNCHANGED <<partitions, dracut_conf, other_jobs>>

\* try: urlretrieve(url, path) except Exception: warning.  A failed transfer
\* leaves no file (error before the body) or a truncated one (error in the body).
fetch_optional(a) ==
  \/ /\ fetch' = [fetch EXCEPT ![a] = "ok"]
     /\ files' = [files EXCEPT ![a] = "complete"]
  \/ /\ fetch' = [fetch EXCEPT ![a] = "failed"]
     /\ \E left \in {"absent", "partial"} : files' = [files EXCEPT ![a] = left]

FetchAsc ==
  /\ pc = "fetch_asc"
  /\ trace' = Append(trace, <<"fetch", "asc">>)
  /\ fetch_optional("asc")
  /\ progress' = <<38, 1>>
  /\ pc' = "fetch_digests"
  /\ UNCHANGED <<orphaned, extract_path>>
  /\ UNCHANGED <<gs, ppid, stage, dl, tar_size, sha_stated, cmd, child, gem, success,
                 msg, parse, hashing, tar, exit_status>>
  /\ UNCHANGED <<partitions, dracut_conf, other_jobs>>

FetchDigests ==
  /\ pc = "fetch_digests"
  /\ trace' = Append(trace, <<"fetch", "digests">>)
  /\ fetch_optional("digests")
  /\ progress' = <<40, 1>>
  /\ pc' = "saferun_entry"
  /\ cmd' = "sha256sum"
  /\ UNCHANGED <<orphaned, extract_path>>
  /\ UNCHANGED <<gs, ppid, stage, dl, tar_size, sha_stated, child, gem, success,
                 msg, parse, hashing, tar, exit_status>>
  /\ UNCHANGED <<partitions, dracut_conf, other_jobs>>

\* ------------------------------------------------------- _safe_run
\* exit status of `sha256sum -c` on the downloaded archive and its .sha256 file
ChecksumRc == IF sha_stated = SHA256_OF_TAR THEN 0 ELSE 1

\* mutant: the exit status of the command is ignored
safe_run_exits_never(retcode) == FALSE

\* _safe_run: "if retcode != 0: sys.exit(1)"
safe_run_exits(retcode) == retcode # 0

\* mutant: the exit status of the child is read as 0 whatever it was
retcode_of_zero(c) == 0

\* proc.poll() of a child that has exited
retcode_of(c) == IF c = "exit0" THEN 0 ELSE 1

\* _safe_run(cmd): _check_parent_alive, then subprocess.Popen(cmd)
SafeRunEntry ==
  /\ pc = "saferun_entry"
  /\ IF parent_dead
       THEN Exit1 /\ UNCHANGED <<child, trace>>
       ELSE \/ /\ child' = "running"
               /\ trace' = Append(trace, <<"spawn", cmd>>)
               /\ pc' = "saferun_poll"
               /\ exit_status' = exit_status
            \/ Exit1 /\ UNCHANGED <<child, trace>>          \* SubprocessError
            \/ Raise /\ UNCHANGED <<child, trace>>          \* OSError from Popen
  /\ UNCHANGED <<orphaned, extract_path>>
  /\ UNCHANGED <<gs, ppid, files, fetch, stage, dl, tar_size, sha_stated, progress,
                 cmd, gem, success, msg, parse, hashing, tar>>
  /\ UNCHANGED <<partitions, dracut_conf, other_jobs>>

\* the spawned command finishes on its own
ChildExits ==
  /\ pc = "saferun_poll"
  /\ child = "running"
  /\ \E rc \in {0, 1} :
       /\ (cmd = "sha256sum" => rc = ChecksumRc)
       /\ child' = IF rc = 0 THEN "exit0" ELSE "exit1"
  /\ UNCHANGED <<orphaned, extract_path>>
  /\ UNCHANGED <<pc, gs, ppid, files, fetch, stage, dl, tar_size, sha_stated, progress,
                 cmd, gem, success, msg, parse, hashing, tar, trace, exit_status>>
  /\ UNCHANGED <<partitions, dracut_conf, other_jobs>>

\* mutant: package.use is not written between getuto and emerge-webrsync
after_cmd_no_package_use(c) ==
  CASE c = "rsync"     -> [pc |-> "returned",          cmd |-> "none"]
    [] c = "sha256sum" -> [pc |-> "sig_stage",         cmd |-> "none"]
    [] c = "getuto"    -> [pc |-> "saferun_entry",     cmd |-> "webrsync"]
    [] c = "webrsync"  -> [pc |-> "saferun_entry",     cmd |-> "emerge"]
    [] c = "emerge"    -> [pc |-> "saferun_entry",     cmd |-> "emerge1"]
    [] c = "emerge1"   -> [pc |-> "cache_cleanup",     cmd |-> "none"]

\* mutant: the archive is opened right after the checksum command
after_cmd_no_verify(c) ==
  CASE c = "rsync"     -> [pc |-> "returned",          cmd |-> "none"]
    [] c = "sha256sum" -> [pc |-> "tar_open",          cmd |-> "none"]
    [] c = "getuto"    -> [pc |-> "write_package_use", cmd |-> "none"]
    [] c = "webrsync"  -> [pc |-> "saferun_entry",     cmd |-> "emerge"]
    [] c = "emerge"    -> [pc |-> "saferun_entry",     cmd |-> "emerge1"]
    [] c = "emerge1"   -> [pc |-> "cache_cleanup",     cmd |-> "none"]

\* where run() continues when _safe_run(c) returns 0
after_cmd(c) ==
  CASE c = "rsync"     -> [pc |-> "returned",          cmd |-> "none"]
    [] c = "sha256sum" -> [pc |-> "sig_stage",         cmd |-> "none"]
    [] c = "getuto"    -> [pc |-> "write_package_use", cmd |-> "none"]
    [] c = "webrsync"  -> [pc |-> "saferun_entry",     cmd |-> "emerge"]
    [] c = "emerge"    -> [pc |-> "saferun_entry",     cmd |-> "emerge1"]
    [] c = "emerge1"   -> [pc |-> "cache_cleanup",     cmd |-> "none"]

\* one iteration of the polling loop of _safe_run
SafeRunPoll ==
  /\ pc = "saferun_poll"
  /\ IF child \in {"exit0", "exit1"}
       THEN IF safe_run_exits(retcode_of(child))
              THEN /\ Exit1
                   /\ stage' = IF cmd = "sha256sum"
                                 THEN [stage EXCEPT !["checksum"] = "failed"] ELSE stage
                   /\ UNCHANGED <<child, cmd, progress>>
              ELSE /\ pc' = after_cmd(cmd).pc
                   /\ cmd' = after_cmd(cmd).cmd
                   /\ child' = "none"
                   /\ stage' = IF cmd = "sha256sum"
                                 THEN [stage EXCEPT !["checksum"] =
                                         IF retcode_of(child) = 0 THEN "passed" ELSE "failed"]
                                 ELSE stage
                   /\ progress' = IF cmd = "sha256sum" THEN <<43, 1>> ELSE progress
                   /\ exit_status' = exit_status
     ELSE IF ppid = 1
       THEN /\ child' \in {"terminated", "killed"}   \* terminate(); wait(5); kill()
            /\ Exit1
            /\ UNCHANGED <<stage, cmd, progress>>
     ELSE UNCHANGED <<pc, child, stage, cmd, progress, exit_status>>   \* time.sleep(1)
  /\ orphaned' = (orphaned \/ parent_dead)
  /\ UNCHANGED extract_path
  /\ UNCHANGED <<gs, ppid, files, fetch, dl, tar_size, sha_stated,
                 gem, success, msg, parse, hashing, tar, trace>>
  /\ UNCHANGED <<partitions, dracut_conf, other_jobs>>

\* ------------------------------------------- verify_pgp_signature_gemato
\* a fingerprint as it appears in text
fpr_text(key, case) == [fpr |-> key, case |-> case]

\* str.lower() of a fingerprint in text
lower(t) == [t EXCEPT !.case = "lower"]

\* what `gemato openpgp-verify[-detached] -K keys file` may do on a file:
\* not installed, another error, a bad signature (rc 1), or a good signature
\* by a key of the keyring (rc 0), whose primary fingerprint it prints.
\* Only a completely transferred file carries a good signature.
gemato_outcomes(target) ==
  {[target |-> target, launch |-> l, rc |-> 1, signer |-> "none", out |-> {}] :
       l \in {"notfound", "error", "ok"}}
  \cup
  {[target |-> target, launch |-> "ok", rc |-> 0, signer |-> k,
    out |-> {fpr_text(k, c)}] :
       k \in (IF files[target] = "complete" THEN {expected_key_id, OTHER_KEY} ELSE {}),
       c \in {"upper", "lower"}}

\* mutant: any key of the keyring is accepted
key_in_output_any(out) == TRUE

\* "expected_key_id in output or expected_key_id.lower() in output.lower()"
key_in_output(out) ==
  \/ fpr_text(expected_key_id, "upper") \in out
  \/ lower(fpr_text(expected_key_id, "upper")) \in {lower(t) : t \in out}

\* the (success, msg) verify_pgp_signature_gemato returns for a result
gemato_verdict(r) ==
  IF r.launch = "notfound" THEN [success |-> FALSE, msg |-> "gemato not found"]
  ELSE IF r.launch = "error" THEN [success |-> FALSE, msg |-> "error"]
  ELSE IF r.rc = 0
    THEN IF key_in_output(r.out)
           THEN [success |-> TRUE, msg |-> "Verified with gemato"]
           ELSE [success |-> FALSE, msg |-> "Wrong signing key"]
  ELSE [success |-> FALSE, msg |-> "Verification failed"]

\* mutant: the signature stage is entered whether or not the .asc file exists
sig_attempted_always == TRUE

\* run(): "if os.path.isfile(tarball_asc_path)": enter the signature stage or skip it
sig_attempted == exists("asc")

SigStage ==
  /\ pc = "sig_stage"
  /\ IF sig_attempted
       THEN IF parent_dead
              THEN Exit1 /\ UNCHANGED <<gem, stage, progress>>
              ELSE /\ pc' = "gemato_run"
                   /\ gem' = [NoGem EXCEPT !.target = "asc"]
                   /\ UNCHANGED <<stage, progress, exit_status>>
       ELSE /\ stage' = [stage EXCEPT !["sig"] = "skipped"]
            /\ progress' = <<46, 1>>
            /\ pc' = "manifest_stage"
            /\ UNCHANGED <<gem, exit_status>>
  /\ UNCHANGED <<orphaned, extract_path>>
  /\ UNCHANGED <<gs, ppid, files, fetch, dl, tar_size, sha_stated, cmd, child,
                 success, msg, parse, hashing, tar, trace>>
  /\ UNCHANGED <<partitions, dracut_conf, other_jobs>>

\* subprocess.run(cmd, capture_output=True), first half: the child is started,
\* or the executable is not found
GematoRun ==
  /\ pc = "gemato_run"
  /\ trace' = Append(trace, <<"gemato", gem.target>>)
  /\ \/ /\ gem' \in {r \in gemato_outcomes(gem.target) : r.launch = "notfound"}
        /\ pc' = "gemato_decide"
     \/ /\ gem' = [gem EXCEPT !.launch = "running"]
        /\ pc' = "gemato_wait"
  /\ UNCHANGED <<orphaned, extract_path>>
  /\ UNCHANGED <<gs, ppid, files, fetch, stage, dl, tar_size, sha_stated, progress,
                 cmd, child, success, msg, parse, hashing, tar, exit_status>>
  /\ UNCHANGED <<partitions, dracut_conf, other_jobs>>

\* subprocess.run, second half: communicate() blocks until gemato has exited;
\* os.getppid() is not looked at while it waits
GematoWait ==
  /\ pc = "gemato_wait"
  /\ gem' \in {r \in gemato_outcomes(gem.target) : r.launch # "notfound"}
  /\ pc' = "gemato_decide"
  /\ UNCHANGED <<orphaned, extract_path>>
  /\ UNCHANGED <<gs, ppid, files, fetch, stage, dl, tar_size, sha_stated, progress,
                 cmd, child, success, msg, parse, hashing, tar, trace, exit_status>>
  /\ UNCHANGED <<partitions, dracut_conf, other_jobs>>

\* mutant: a failed signature check does not stop run()
sig_stage_aborts_never(ok) == FALSE

\* run(): "if not success: sys.exit(1)" after the check of the .asc file
sig_stage_aborts(ok) == ~ok

\* mutant: the DIGESTS file is parsed whatever its signature check said
digests_sig_rejects_never(ok) == FALSE

\* verify_stage3_with_digests: "if not success: return False" after the check
\* of the DIGESTS file's own signature
digests_sig_rejects(ok) == ~ok

\* the verdict on the result, and what the caller does with it:
\* run() for the .asc file, verify_stage3_with_digests for the DIGESTS file
GematoDecide ==
  /\ pc = "gemato_decide"
  /\ success' = gemato_verdict(gem).success
  /\ msg' = gemato_verdict(gem).msg
  /\ gem' = NoGem
  /\ IF gem.target = "asc"
       THEN /\ stage' = [stage EXCEPT !["sig"] = IF success' THEN "passed" ELSE "failed"]
            /\ IF sig_stage_aborts(success')
                 THEN Exit1 /\ UNCHANGED progress
                 ELSE /\ progress' = <<46, 1>>
                      /\ pc' = "manifest_stage"
                      /\ exit_status' = exit_status
       ELSE IF digests_sig_rejects(success')
              THEN /\ stage' = [stage EXCEPT !["manifest"] = "failed"]
                   /\ Exit1
                   /\ UNCHANGED progress
              ELSE /\ pc' = "parse_entry"
                   /\ UNCHANGED <<stage, progress, exit_status>>
  /\ UNCHANGED <<orphaned, extract_path>>
  /\ UNCHANGED <<gs, ppid, files, fetch, dl, tar_size, sha_stated, cmd, child,
                 parse, hashing, tar, trace>>
  /\ UNCHANGED <<partitions, dracut_conf, other_jobs>>

\* run(): "if os.path.isfile(digests_path) and not verify_stage3_with_digests(..)"
manifest_attempted == exists("digests")

ManifestStage ==
  /\ pc = "manifest_stage"
  /\ IF manifest_attempted
       THEN IF parent_dead
              THEN Exit1 /\ UNCHANGED <<gem, stage, progress>>
              ELSE /\ pc' = "gemato_run"
                   /\ gem' = [NoGem EXCEPT !.target = "digests"]
                   /\ UNCHANGED <<stage, progress, exit_status>>
       ELSE /\ stage' = [stage EXCEPT !["manifest"] = "skipped"]
            /\ progress' = <<50, 1>>
            /\ pc' = "tar_open"
            /\ UNCHANGED <<gem, exit_status>>
  /\ UNCHANGED <<orphaned, extract_path>>
  /\ UNCHANGED <<gs, ppid, files, fetch, dl, tar_size, sha_stated, cmd, child,
                 success, msg, parse, hashing, tar, trace>>
  /\ UNCHANGED <<partitions, dracut_conf, other_jobs>>

\* ----------------------------------------------- parse_digests_file
HashTypes == {"SHA512", "BLAKE2B", "WHIRLPOOL"}   \* names a "# <ALGO> HASH" header may carry
Supported == {"SHA512", "BLAKE2B"}                \* those calculate_hash knows

\* the kinds of line a DIGESTS file holds: PGP armor ("-----BEGIN ...", "Hash: .."),
\* a "# <ALGO> HASH" header, a "<lowercase hex>  <filename>" line, anything else
Lines ==
  {[kind |-> "armor",  algo |-> "", hash |-> "", file |-> ""],
   [kind |-> "junk",   algo |-> "", hash |-> "", file |-> ""]}
  \cup {[kind |-> "header", algo |-> a, hash |-> "", file |-> ""] : a \in HashTypes}
  \cup {[kind |-> "hash", algo |-> "", hash |-> h, file |-> STAGE3] :
          h \in {SHA512_OF_TAR, BLAKE2B_OF_TAR}}
  \cup {[kind |-> "hash", algo |-> "", hash |-> SHA512_OF_TAR, file |-> OTHERFILE]}

\* index of hash type a in the entry e (a sequence of <<type, hash>>), 0 if none
RECURSIVE index_of(_, _, _)
index_of(e, a, i) ==
  IF i > Len(e) THEN 0 ELSE IF e[i][1] = a THEN i ELSE index_of(e, a, i + 1)

\* file_hashes[filename][current_hash_type] = hash_value on a dict entry
dict_set(e, a, h) ==
  IF index_of(e, a, 1) = 0 THEN Append(e, <<a, h>>)
  ELSE [e EXCEPT ![index_of(e, a, 1)] = <<a, h>>]

\* parse_line without the "if current_hash_type" test: a hash line is recorded
\* under whatever the current type is, "None" included
parse_line_any_section(p, line) ==
  LET q == [p EXCEPT !.lines = p.lines + 1] IN
  IF line.kind = "armor" THEN q
  ELSE IF line.kind = "header" THEN [q EXCEPT !.current_hash_type = line.algo]
  ELSE IF line.kind = "hash"
    THEN [q EXCEPT !.file_hashes[line.file] =
                      dict_set(p.file_hashes[line.file], p.current_hash_type, line.hash)]
  ELSE q

\* the body of the "for line in f" loop
parse_line(p, line) ==
  LET q == [p EXCEPT !.lines = p.lines + 1] IN
  IF line.kind = "armor" THEN q
  ELSE IF line.kind = "header" THEN [q EXCEPT !.current_hash_type = line.algo]
  ELSE IF p.current_hash_type # "None" /\ line.kind = "hash"
    THEN [q EXCEPT !.file_hashes[line.file] =
                      dict_set(p.file_hashes[line.file], p.current_hash_type, line.hash)]
  ELSE q

\* verify_stage3_with_digests returns False to run(), which exits at once
ManifestFails ==
  /\ stage' = [stage EXCEPT !["manifest"] = "failed"]
  /\ UNCHANGED <<orphaned, extract_path>>
  /\ UNCHANGED <<parse, hashing>>
  /\ Exit1

\* parse_digests_file: _check_parent_alive, open(digests_path) on a file of some length
ParseEntry ==
  /\ pc = "parse_entry"
  /\ IF parent_dead
       THEN Exit1 /\ UNCHANGED <<parse, hashing, stage, trace>>
       ELSE \/ /\ \E n \in 0 .. MaxLines : parse' = [NoParse EXCEPT !.nlines = n]
               /\ trace' = Append(trace, <<"parse", "digests">>)
               /\ pc' = "parse_loop"
               /\ UNCHANGED <<hashing, stage, exit_status>>
            \/ /\ ManifestFails                         \* open() raises: {} is returned
               /\ UNCHANGED trace
  /\ UNCHANGED <<orphaned, extract_path>>
  /\ UNCHANGED <<gs, ppid, files, fetch, dl, tar_size, sha_stated, progress, cmd, child,
                 gem, success, msg, tar>>
  /\ UNCHANGED <<partitions, dracut_conf, other_jobs>>

\* what "for line in f" may yield next: any line, or the next line of the text
\* when the content of the file is fixed in advance
next_lines(p) == IF p.text = <<>> THEN Lines ELSE {p.text[p.lines + 1]}

\* one iteration of "for line in f", or its end
ParseLine ==
  /\ pc = "parse_loop"
  /\ IF parse.lines < parse.nlines
       THEN IF parent_dead
              THEN Exit1 /\ UNCHANGED parse
              ELSE /\ \E line \in next_lines(parse) : parse' = parse_line(parse, line)
                   /\ UNCHANGED <<pc, exit_status>>
       ELSE /\ pc' = "digest_check"                       \* end of file
            /\ UNCHANGED <<parse, exit_status>>
  /\ orphaned' = (orphaned \/ (parent_dead /\ parse.lines < parse.nlines))
  /\ UNCHANGED extract_path
  /\ UNCHANGED <<gs, ppid, files, fetch, stage, dl, tar_size, sha_stated, progress,
                 cmd, child, gem, success, msg, hashing, tar, trace>>
  /\ UNCHANGED <<partitions, dracut_conf, other_jobs>>

\* verify_stage3_with_digests: "if not file_hashes", "if stage3_name not in file_hashes"
manifest_rejected(file_hashes) ==
  \/ \A f \in DOMAIN file_hashes : file_hashes[f] = <<>>
  \/ file_hashes[STAGE3] = <<>>

DigestCheck ==
  /\ pc = "digest_check"
  /\ IF manifest_rejected(parse.file_hashes)
       THEN ManifestFails
       ELSE /\ hashing' = [todo |-> parse.file_hashes[STAGE3], all_valid |-> TRUE,
                           chunks |-> 0, done |-> <<>>]
            /\ pc' = "hash_loop"
            /\ UNCHANGED <<parse, stage, exit_status>>
  /\ UNCHANGED <<orphaned, extract_path>>
  /\ UNCHANGED <<gs, ppid, files, fetch, dl, tar_size, sha_stated, progress, cmd, child,
                 gem, success, msg, tar, trace>>
  /\ UNCHANGED <<partitions, dracut_conf, other_jobs>>

\* ------------------------------------------ calculate_hash / verify_hash
\* hasher.hexdigest() of the archive
hexdigest(hash_type) == IF hash_type = "SHA512" THEN SHA512_OF_TAR ELSE BLAKE2B_OF_TAR

\* mutant: an unknown hash type falls through to the last hasher
hash_supported_any(hash_type) == TRUE

\* calculate_hash: "if SHA512 / elif BLAKE2B / else: return None"
hash_supported(hash_type) == hash_type \in Supported

\* mutant: every computed digest is taken to match
hash_matches_any(hash_type, expected_hash) == TRUE

\* verify_hash once the digest is computed
hash_matches(hash_type, expected_hash) == hexdigest(hash_type) = expected_hash

\* "for hash_type, expected_hash in hashes.items()": take the next item, or return
HashNext ==
  /\ pc = "hash_loop"
  /\ IF hashing.todo = <<>>
       THEN /\ IF hashing.all_valid
                 THEN /\ stage' = [stage EXCEPT !["manifest"] = "passed"]
                      /\ parse' = NoParse
                      /\ hashing' = NoHashing
                      /\ progress' = <<50, 1>>
                      /\ pc' = "tar_open"
                      /\ exit_status' = exit_status
                 ELSE ManifestFails /\ UNCHANGED progress
            /\ UNCHANGED trace
     ELSE IF parent_dead
       THEN Exit1 /\ UNCHANGED <<hashing, parse, trace, stage, progress>>
     ELSE IF ~hash_supported(hashing.todo[1][1])
       THEN /\ hashing' = [hashing EXCEPT !.all_valid = FALSE, !.todo = Tail(@),
                                          !.done = Append(@, hashing.todo[1][1])]
            /\ UNCHANGED <<pc, parse, trace, stage, progress, exit_status>>
     ELSE \/ /\ trace' = Append(trace, <<"hash", hashing.todo[1][1]>>)
             /\ pc' = "hash_chunks"
             /\ UNCHANGED <<hashing, parse, stage, progress, exit_status>>
          \/ /\ hashing' = [hashing EXCEPT !.all_valid = FALSE, !.todo = Tail(@),
                                           !.done = Append(@, hashing.todo[1][1])]
             /\ UNCHANGED <<pc, parse, trace, stage, progress, exit_status>>  \* open() raises
  /\ UNCHANGED <<orphaned, extract_path>>
  /\ UNCHANGED <<gs, ppid, files, fetch, dl, tar_size, sha_stated, cmd, child,
                 gem, success, msg, tar>>
  /\ UNCHANGED <<partitions, dracut_conf, other_jobs>>

\* "while chunk := f.read(8192)": one chunk, or the end of the file and the comparison
HashChunk ==
  /\ pc = "hash_chunks"
  /\ IF hashing.chunks < CeilDiv(tar_size, BlockSize)
       THEN IF parent_dead
              THEN Exit1 /\ UNCHANGED hashing
              ELSE /\ hashing' = [hashing EXCEPT !.chunks = @ + 1]
                   /\ UNCHANGED <<pc, exit_status>>
       ELSE /\ hashing' = [hashing EXCEPT
                 !.all_valid = @ /\ hash_matches(hashing.todo[1][1], hashing.todo[1][2]),
                 !.todo = Tail(@), !.chunks = 0,
                 !.done = Append(@, hashing.todo[1][1])]
            /\ pc' = "hash_loop"
            /\ exit_status' = exit_status
  /\ orphaned' = (orphaned \/ (parent_dead /\ hashing.chunks < CeilDiv(tar_size, BlockSize)))
  /\ UNCHANGED extract_path
  /\ UNCHANGED <<gs, ppid, files, fetch, stage, dl, tar_size, sha_stated, progress,
                 cmd, child, gem, success, msg, parse, tar, trace>>
  /\ UNCHANGED <<partitions, dracut_conf, other_jobs>>

\* ------------------------------------------------ Archive Extractor
\* mutant: every OSError of tar.extract is re-raised
extract_raises_any(errno) == errno # 0

\* "except OSError as e: if e.errno != 17: raise"; errno 0 is a successful extract
extract_raises(errno) == errno # 0 /\ errno # EEXIST

\* the member lists of n members, up to the naming of the paths: a path gets
\* the next free number the first time the archive names it
MemberLists(n) ==
  {m \in [1 .. n -> Paths] :
     \A k \in 1 .. n : \A q \in 1 .. (m[k] - 1) : \E j \in 1 .. (k - 1) : m[j] = q}

\* tarfile.open(download_path, "r:xz"); members = tar.getmembers()
TarOpen ==
  /\ pc = "tar_open"
  /\ trace' = Append(trace, <<"tar", "open">>)
  /\ \/ /\ Raise                                           \* tarfile.ReadError
        /\ UNCHANGED tar
     \/ /\ \E n \in 0 .. MaxMembers : \E m \in MemberLists(n) :
             tar' = [open |-> TRUE, total_members |-> n, i |-> 0,
                     extracted |-> 0, collisions |-> 0, members |-> m, errno |-> 0]
        /\ pc' = "extract_loop"
        /\ exit_status' = exit_status
  /\ UNCHANGED <<orphaned, extract_path>>
  /\ UNCHANGED <<gs, ppid, files, fetch, stage, dl, tar_size, sha_stated, progress,
                 cmd, child, gem, success, msg, parse, hashing>>
  /\ UNCHANGED <<partitions, dracut_conf, other_jobs>>

\* what is found at a path the first time it is looked at
resolve(st) == IF st = "unknown" THEN {"absent", "other"} ELSE {st}

\* tar.extract(member, extract_path) at a path holding st: <<errno, what the
\* path holds afterwards>>.  errno 0: the member is written; EEXIST: the path
\* exists and is left as it is; 28 stands for any other OSError, which may
\* leave the member half-written.
extract_outcomes(st) ==
  {<<0, "archive">>, <<28, st>>, <<28, "partial">>}
  \cup (IF st # "absent" THEN {<<EEXIST, st>>} ELSE {})

\* one iteration of "for i, member in enumerate(members)", or the end of the loop
ExtractMember ==
  /\ pc = "extract_loop"
  /\ IF tar.i < tar.total_members
       THEN IF parent_dead
              THEN Exit1 /\ UNCHANGED <<tar, progress, extract_path>>
              ELSE LET p == tar.members[tar.i + 1] IN
                   \E st \in resolve(extract_path.tree[p]) : \E o \in extract_outcomes(st) :
                     /\ extract_path' = [extract_path EXCEPT !.tree[p] = o[2]]
                     /\ IF extract_raises(o[1])
                          THEN /\ Raise
                               /\ tar' = [tar EXCEPT !.errno = o[1]]
                               /\ UNCHANGED progress
                          ELSE /\ tar' = [tar EXCEPT
                                    !.i = @ + 1,
                                    !.extracted = IF o[1] = 0 THEN @ + 1 ELSE @,
                                    !.collisions = IF o[1] = 0 THEN @ ELSE @ + 1,
                                    !.errno = o[1]]
                               /\ progress' = <<50 * tar.total_members + tar.i * 50,
                                                tar.total_members>>
                               /\ UNCHANGED <<pc, exit_status>>
       ELSE /\ tar' = [tar EXCEPT !.open = FALSE, !.errno = 0]   \* the with block ends
            /\ pc' = "cleanup"
            /\ UNCHANGED <<progress, exit_status, extract_path>>
  /\ orphaned' = (orphaned \/ (parent_dead /\ tar.i < tar.total_members))
  /\ UNCHANGED <<gs, ppid, files, fetch, stage, dl, tar_size, sha_stated,
                 cmd, child, gem, success, msg, parse, hashing, trace>>
  /\ UNCHANGED <<partitions, dracut_conf, other_jobs>>

\* os.remove of the archive and of the trust artifacts that exist.  With the
\* archive gone its member list is gone; what the members left in the target
\* directory is not followed further, nothing later in run() reads it.
Cleanup ==
  /\ pc = "cleanup"
  /\ files' = [a \in Artifacts |-> "absent"]
  /\ tar' = [tar EXCEPT !.members = <<>>]
  /\ extract_path' = [extract_path EXCEPT !.tree = UnseenTree]
  /\ trace' = Append(trace, <<"remove", "tmp">>)
  /\ pc' = "prep_tree"
  /\ UNCHANGED orphaned
  /\ UNCHANGED <<gs, ppid, fetch, stage, dl, tar_size, sha_stated, progress,
                 cmd, child, gem, success, msg, parse, hashing, exit_status>>
  /\ UNCHANGED <<partitions, dracut_conf, other_jobs>>

\* ------------------------------------------------------- bootstrap
\* copy resolv.conf, make binrepos.conf, copy gentoobinhost.conf if present,
\* then _safe_run(chroot getuto)
PrepTree ==
  /\ pc = "prep_tree"
  /\ \/ /\ Raise                                           \* shutil.copy2 raises
        /\ UNCHANGED <<trace, cmd>>
     \/ /\ trace' = Append(trace, <<"write", "resolv.conf">>)
        /\ pc' = "saferun_entry"
        /\ cmd' = "getuto"
        /\ exit_status' = exit_status
  /\ UNCHANGED <<orphaned, extract_path>>
  /\ UNCHANGED <<gs, ppid, files, fetch, stage, dl, tar_size, sha_stated, progress,
                 child, gem, success, msg, parse, hashing, tar>>
  /\ UNCHANGED <<partitions, dracut_conf, other_jobs>>

\* write etc/portage/package.use/00-livecd.package.use, then emerge-webrsync
WritePackageUse ==
  /\ pc = "write_package_use"
  /\ trace' = Append(trace, <<"write", "package.use">>)
  /\ pc' = "saferun_entry"
  /\ cmd' = "webrsync"
  /\ UNCHANGED <<orphaned, extract_path>>
  /\ UNCHANGED <<gs, ppid, files, fetch, stage, dl, tar_size, sha_stated, progress,
                 child, gem, success, msg, parse, hashing, tar, exit_status>>
  /\ UNCHANGED <<partitions, dracut_conf, other_jobs>>

\* empty var/cache/distfiles and var/cache/binpkgs
CacheCleanup ==
  /\ pc = "cache_cleanup"
  /\ trace' = Append(trace, <<"clean", "cache">>)
  /\ pc' = "remove_repo"
  /\ UNCHANGED <<orphaned, extract_path>>
  /\ UNCHANGED <<gs, ppid, files, fetch, stage, dl, tar_size, sha_stated, progress,
                 cmd, child, gem, success, msg, parse, hashing, tar, exit_status>>
  /\ UNCHANGED <<partitions, dracut_conf, other_jobs>>

\* "if os.path.exists(gentoo_repo): shutil.rmtree(gentoo_repo)"
RemoveRepo ==
  /\ pc = "remove_repo"
  /\ \E repo_exists \in BOOLEAN :
       trace' = IF repo_exists THEN Append(trace, <<"remove", "repo">>) ELSE trace
  /\ pc' = "write_dracut"
  /\ UNCHANGED <<orphaned, extract_path>>
  /\ UNCHANGED <<gs, ppid, files, fetch, stage, dl, tar_size, sha_stated, progress,
                 cmd, child, gem, success, msg, parse, hashing, tar, exit_status>>
  /\ UNCHANGED <<partitions, dracut_conf, other_jobs>>

\* ------------------------------------------------ write_dracut_config
\* partition records of globalstorage "partitions": luks stands for the presence
\* of luksMapperName (and luksUuid)
MountPoints == {"/", "/boot", "/home"}
Partition == [mountPoint : MountPoints, luks : BOOLEAN, fs : {"ext4", "linuxswap"}]
PartitionLists == UNION {[1 .. k -> Partition] : k \in 0 .. MaxPartitions}

\* the lists globalstorage.value("partitions") may return: the list when it
\* is fixed; otherwise no record or any one record, which is enough for both
\* outcomes of is_encrypted
partitions_read ==
  IF partitions.fixed THEN {partitions.list}
  ELSE {<<>>} \cup {<<r>> : r \in Partition}

\* archive names with several spellings of "systemd"
DracutNames == {"stage3-openrc.tar.xz", "stage3-systemd.tar.xz", "stage3-SystemD.tar.xz", "SYSTEMD-stage3", "stage3-system-d.tar", "stage3-systemd-openrc"}

\* values of STAGE_NAME_TAR seen by dracut_gentoo
DgNames == {"", "stage3-openrc.tar.xz", "stage3-SystemD.tar.xz"}

\* the characters of an archive name
Spelling(n) ==
  CASE n = "stage3-openrc.tar.xz" -> <<"s", "t", "a", "g", "e", "3", "-", "o", "p", "e", "n", "r", "c", ".", "t", "a", "r", ".", "x", "z">>
    [] n = "stage3-systemd.tar.xz" -> <<"s", "t", "a", "g", "e", "3", "-", "s", "y", "s", "t", "e", "m", "d", ".", "t", "a", "r", ".", "x", "z">>
    [] n = "stage3-SystemD.tar.xz" -> <<"s", "t", "a", "g", "e", "3", "-", "S", "y", "s", "t", "e", "m", "D", ".", "t", "a", "r", ".", "x", "z">>
    [] n = "SYSTEMD-stage3" -> <<"S", "Y", "S", "T", "E", "M", "D", "-", "s", "t", "a", "g", "e", "3">>
    [] n = "stage3-system-d.tar" -> <<"s", "t", "a", "g", "e", "3", "-", "s", "y", "s", "t", "e", "m", "-", "d", ".", "t", "a", "r">>
    [] n = "stage3-systemd-openrc" -> <<"s", "t", "a", "g", "e", "3", "-", "s", "y", "s", "t", "e", "m", "d", "-", "o", "p", "e", "n", "r", "c">>
    [] OTHER -> <<>>

UPPERCASE == <<"A", "B", "C", "D", "E", "F", "G", "H", "I", "J", "K", "L", "M", "N", "O", "P", "Q", "R", "S", "T", "U", "V", "W", "X", "Y", "Z">>
LOWERCASE == <<"a", "b", "c", "d", "e", "f", "g", "h", "i", "j", "k", "l", "m", "n", "o", "p", "q", "r", "s", "t", "u", "v", "w", "x", "y", "z">>
SYSTEMD == <<"s", "y", "s", "t", "e", "m", "d">>

\* str.lower() on the characters of a name
str_lower(str) ==
  [i \in DOMAIN str |->
     IF \E k \in DOMAIN UPPERCASE : UPPERCASE[k] = str[i]
       THEN LOWERCASE[CHOOSE k \in DOMAIN UPPERCASE : UPPERCASE[k] = str[i]]
       ELSE str[i]]

\* "sub in str"
contains(sub, str) ==
  \E i \in 0 .. (Len(str) - Len(sub)) : SubSeq(str, i + 1, i + Len(sub)) = sub

\* "systemd" in stage_name_tar, without lower()
is_systemd_case_sensitive(stage_name_tar) == contains(SYSTEMD, Spelling(stage_name_tar))

\* is_systemd = "systemd" in stage_name_tar.lower()
is_systemd(stage_name_tar) == contains(SYSTEMD, str_lower(Spelling(stage_name_tar)))

\* is_encrypted: some partition has mountPoint "/" and a luksMapperName
is_encrypted(parts) ==
  \E i \in DOMAIN parts : parts[i].mountPoint = "/" /\ parts[i].luks

HOSTONLY          == "hostonly=\"yes\""
HOSTONLY_CMDLINE  == "hostonly_cmdline=\"yes\""
OMIT_SYSTEMD      == "omit_dracutmodules+=\" systemd systemd-initrd systemd-networkd dracut-systemd plymouth \""
ADD_CRYPT         == "add_dracutmodules+=\" crypt dm rootfs-block \""
OMIT_PLYMOUTH     == "omit_dracutmodules+=\" plymouth \""

\* the settings written to 10-calamares.conf, in order (comment lines left out)
write_dracut_config(parts, stage_name_tar) ==
  <<HOSTONLY, HOSTONLY_CMDLINE>> \o
  (IF ~is_systemd(stage_name_tar)
     THEN <<OMIT_SYSTEMD>> \o (IF is_encrypted(parts) THEN <<ADD_CRYPT>> ELSE <<>>)
     ELSE <<OMIT_PLYMOUTH>>)

\* write_dracut_config(extract_path, stage_name_tar); return None
WriteDracutConfig ==
  /\ pc = "write_dracut"
  /\ \E parts \in partitions_read : dracut_conf' = write_dracut_config(parts, gs.name)
  /\ trace' = Append(trace, <<"write", "dracut.conf">>)
  /\ pc' = "returned"
  /\ UNCHANGED <<orphaned, extract_path>>
  /\ UNCHANGED <<gs, ppid, files, fetch, stage, dl, tar_size, sha_stated, progress,
                 cmd, child, gem, success, msg, parse, hashing, tar, exit_status>>
  /\ UNCHANGED <<partitions, other_jobs>>

Next ==
  \/ ParentDies
  \/ RunLive
  \/ RunNonLive
  \/ RemoveStale
  \/ FetchTar
  \/ DlHook
  \/ FetchSha
  \/ FetchAsc
  \/ FetchDigests
  \/ SafeRunEntry
  \/ ChildExits
  \/ SafeRunPoll
  \/ SigStage
  \/ GematoRun
  \/ GematoWait
  \/ GematoDecide
  \/ ManifestStage
  \/ ParseEntry
  \/ ParseLine
  \/ DigestCheck
  \/ HashNext
  \/ HashChunk
  \/ TarOpen
  \/ ExtractMember
  \/ Cleanup
  \/ PrepTree
  \/ WritePackageUse
  \/ CacheCleanup
  \/ RemoveRepo
  \/ WriteDracutConfig

Spec == Init /\ [][Next]_vars

\* ------------------------------------- the extraction stage, run twice
\* run() at tarfile.open with the verification chain behind it (checksum
\* passed, no .asc and no DIGESTS file), in front of an empty target directory
ExtractInit ==
  /\ pc = "tar_open"
  /\ gs = [livecd |-> "unset", has_url |-> TRUE, url |-> <<"u">>,
           has_name |-> TRUE, name |-> "stage3-openrc.tar.xz", root |-> "/target"]
  /\ ppid \in SupervisorPids
  /\ files = [a \in Artifacts |-> IF a \in {"tar", "sha256"} THEN "complete" ELSE "absent"]
  /\ fetch = [a \in Artifacts |-> IF a \in {"tar", "sha256"} THEN "ok" ELSE "failed"]
  /\ stage = [s \in Stages |-> IF s = "checksum" THEN "passed" ELSE "skipped"]
  /\ dl = NoDl
  /\ tar_size \in 1 .. MaxBytes
  /\ sha_stated = SHA256_OF_TAR
  /\ progress = <<50, 1>>
  /\ cmd = "none"
  /\ child = "none"
  /\ gem = NoGem
  /\ success = FALSE
  /\ msg = "none"
  /\ parse = NoParse
  /\ hashing = NoHashing
  /\ tar = NoTar
  /\ trace = << <<"fetch", "tar">>, <<"fetch", "sha256">>, <<"fetch", "asc">>,
                <<"fetch", "digests">>, <<"spawn", "sha256sum">> >>
  /\ exit_status = 0
  /\ orphaned = FALSE
  /\ extract_path = [tree |-> EmptyTree, pass |-> 1, once |-> EmptyTree]
  /\ partitions = NoPartitions
  /\ dracut_conf = <<>>
  /\ OtherJobsIdle

\* the extraction stage once more, on the same archive and on the directory
\* the first pass left: tarfile.open and getmembers give the same member list
ExtractAgain ==
  /\ pc = "cleanup"
  /\ extract_path.pass = 1
  /\ extract_path' = [extract_path EXCEPT !.pass = 2, !.once = extract_path.tree]
  /\ tar' = [tar EXCEPT !.open = TRUE, !.i = 0, !.extracted = 0, !.collisions = 0]
  /\ trace' = Append(trace, <<"tar", "open">>)
  /\ pc' = "extract_loop"
  /\ UNCHANGED <<gs, ppid, files, fetch, stage, dl, tar_size, sha_stated, progress,
                 cmd, child, gem, success, msg, parse, hashing, exit_status, orphaned>>
  /\ UNCHANGED <<partitions, dracut_conf, other_jobs>>

ExtractNext ==
  \/ ParentDies
  \/ TarOpen
  \/ ExtractMember
  \/ ExtractAgain

ExtractSpec == ExtractInit /\ [][ExtractNext]_vars

\* ------------------------------ parse_digests_file on a file of known content
\* every DIGESTS file of at most MaxLines lines
Texts == UNION {[1 .. k -> Lines] : k \in 0 .. MaxLines}

\* run() inside parse_digests_file, the file just opened (checksum passed, no
\* .asc, the DIGESTS signature verified), with the content of the file fixed
ParseInit ==
  /\ pc = "parse_loop"
  /\ gs = [livecd |-> "unset", has_url |-> TRUE, url |-> <<"u">>,
           has_name |-> TRUE, name |-> "stage3-openrc.tar.xz", root |-> "/target"]
  /\ ppid \in SupervisorPids
  /\ files = [a \in Artifacts |-> IF a = "asc" THEN "absent" ELSE "complete"]
  /\ fetch = [a \in Artifacts |-> IF a = "asc" THEN "failed" ELSE "ok"]
  /\ stage = [checksum |-> "passed", sig |-> "skipped", manifest |-> "none"]
  /\ dl = NoDl
  /\ tar_size = 0
  /\ sha_stated = SHA256_OF_TAR
  /\ progress = <<46, 1>>
  /\ cmd = "none"
  /\ child = "none"
  /\ gem = NoGem
  /\ success = TRUE
  /\ msg = "Verified with gemato"
  /\ \E t \in Texts : parse = [NoParse EXCEPT !.nlines = Len(t), !.text = t]
  /\ hashing = NoHashing
  /\ tar = NoTar
  /\ trace = << <<"fetch", "tar">>, <<"fetch", "sha256">>, <<"fetch", "asc">>,
                <<"fetch", "digests">>, <<"spawn", "sha256sum">>,
                <<"gemato", "digests">>, <<"parse", "digests">> >>
  /\ exit_status = 0
  /\ orphaned = FALSE
  /\ extract_path = [tree |-> UnseenTree, pass |-> 1, once |-> UnseenTree]
  /\ partitions = NoPartitions
  /\ dracut_conf = <<>>
  /\ OtherJobsIdle

ParseNext ==
  \/ ParentDies
  \/ ParseLine

ParseSpec == ParseInit /\ [][ParseNext]_vars

\* ----------------------------------- write_dracut_config on known inputs
\* run() about to call write_dracut_config after a successful bootstrap, with
\* the archive name and the partition list fixed
DracutConfInit ==
  /\ pc = "write_dracut"
  /\ \E n \in DracutNames :
       gs = [livecd |-> "unset", has_url |-> TRUE, url |-> <<"u">>,
             has_name |-> TRUE, name |-> n, root |-> "/target"]
  /\ ppid \in SupervisorPids
  /\ files = [a \in Artifacts |-> "absent"]
  /\ fetch = [a \in Artifacts |-> IF a \in {"tar", "sha256"} THEN "ok" ELSE "failed"]
  /\ stage = [s \in Stages |-> IF s = "checksum" THEN "passed" ELSE "skipped"]
  /\ dl = NoDl
  /\ tar_size = 0
  /\ sha_stated = SHA256_OF_TAR
  /\ progress = <<50, 1>>
  /\ cmd = "none"
  /\ child = "none"
  /\ gem = NoGem
  /\ success = FALSE
  /\ msg = "none"
  /\ parse = NoParse
  /\ hashing = NoHashing
  /\ tar = NoTar
  /\ trace = << <<"fetch", "tar">>, <<"fetch", "sha256">>, <<"fetch", "asc">>,
                <<"fetch", "digests">>, <<"spawn", "sha256sum">>, <<"tar", "open">>,
                <<"remove", "tmp">>, <<"write", "resolv.conf">>, <<"spawn", "getuto">>,
                <<"write", "package.use">>, <<"spawn", "webrsync">>,
                <<"spawn", "emerge">>, <<"spawn", "emerge1">>, <<"clean", "cache">>,
                <<"remove", "repo">> >>
  /\ exit_status = 0
  /\ orphaned = FALSE
  /\ extract_path = [tree |-> UnseenTree, pass |-> 1, once |-> UnseenTree]
  /\ \E l \in PartitionLists : partitions = [fixed |-> TRUE, list |-> l]
  /\ dracut_conf = <<>>
  /\ OtherJobsIdle

DracutConfNext ==
  \/ WriteDracutConfig

DracutConfSpec == DracutConfInit /\ [][DracutConfNext]_vars

\* ------------------------------------------------------- dracut_gentoo
\* is_systemd_stage3(): STAGE_NAME_TAR is set and holds "systemd" in any case
is_systemd_stage3 == gs.has_name /\ gs.name # "" /\ is_systemd(gs.name)

\* is_root_encrypted()
is_root_encrypted == partitions.list # <<>> /\ is_encrypted(partitions.list)

\* "partition.get('mountPoint') == '/' or partition.get('fs') == 'linuxswap'",
\* without the test of the file system
skip_partitions_root_only(p) == p.mountPoint = "/"

\* skip_partitions
skip_partitions(p) == p.mountPoint = "/" \/ p.fs = "linuxswap"

\* unencrypted_separate_boot
unencrypted_separate_boot(parts) ==
  \E i \in DOMAIN parts : parts[i].mountPoint = "/boot" /\ ~parts[i].luks

\* the loop of configure_openrc_dmcrypt from partition i on: one entry per
\* partition written, naming the partition and whether the key line is added
RECURSIVE dmcrypt_entries(_, _)
dmcrypt_entries(parts, i) ==
  IF i > Len(parts) THEN <<>>
  ELSE (IF parts[i].luks /\ ~skip_partitions(parts[i])
          THEN << [partition |-> i, key |-> ~unencrypted_separate_boot(parts)] >>
          ELSE <<>>) \o dmcrypt_entries(parts, i + 1)

\* configure_openrc_dmcrypt(): what it appends to etc/conf.d/dmcrypt
configure_openrc_dmcrypt ==
  IF is_systemd_stage3 THEN <<>>
  ELSE IF partitions.list = <<>> THEN <<>>
  ELSE IF gs.root = "" THEN <<>>
  ELSE dmcrypt_entries(partitions.list, 1)

\* the files glob finds in boot/: none, one whose name carries a x.y.z
\* version, or one matching the pattern without such a version
Initramfs == {"none", "versioned", "unversioned"}

\* run(): in live mode with a root mount point, userdel -r gentoo (failure ignored)
DgUserdel ==
  /\ dg.pc = "start"
  /\ dg' = [dg EXCEPT !.pc = "find_initramfs",
                      !.ran = IF gs.livecd = "yes" /\ gs.root # ""
                                THEN Append(@, "userdel") ELSE @]
  /\ UNCHANGED <<dmcrypt, partitions, dracut_conf, gentoopkg_vars>>
  /\ UNCHANGED <<pc, gs, ppid, files, fetch, stage, dl, tar_size, sha_stated, progress,
                 cmd, child, gem, success, msg, parse, hashing, tar, trace, exit_status,
                 orphaned, extract_path>>

\* find_latest_gentoo_initramfs and extract_kernel_simple_version: ValueError
\* without rootMountPoint or version, FileNotFoundError without candidates
DgFindInitramfs ==
  /\ dg.pc = "find_initramfs"
  /\ \E found \in Initramfs :
       dg' = IF gs.root = "" \/ found # "versioned"
               THEN [dg EXCEPT !.pc = "returned", !.ret = "1",
                               !.initramfs = IF gs.root = "" THEN "none" ELSE found]
               ELSE [dg EXCEPT !.initramfs = found,
                               !.pc = IF is_root_encrypted THEN "ensure_cryptsetup"
                                      ELSE "returned",
                               !.ret = IF is_root_encrypted THEN "none" ELSE "None"]
  /\ UNCHANGED <<dmcrypt, partitions, dracut_conf, gentoopkg_vars>>
  /\ UNCHANGED <<pc, gs, ppid, files, fetch, stage, dl, tar_size, sha_stated, progress,
                 cmd, child, gem, success, msg, parse, hashing, tar, trace, exit_status,
                 orphaned, extract_path>>

\* ensure_cryptsetup_for_openrc(): nothing for systemd; else "which cryptsetup",
\* and when that fails "emerge sys-apps/cryptsetup", whose failure is only logged
DgEnsureCryptsetup ==
  /\ dg.pc = "ensure_cryptsetup"
  /\ \E which_ok \in BOOLEAN :
       dg' = [dg EXCEPT !.pc = "configure_dmcrypt",
                        !.ran = IF is_systemd_stage3 THEN @
                                ELSE IF which_ok THEN Append(@, "which")
                                ELSE @ \o <<"which", "emerge">>]
  /\ UNCHANGED <<dmcrypt, partitions, dracut_conf, gentoopkg_vars>>
  /\ UNCHANGED <<pc, gs, ppid, files, fetch, stage, dl, tar_size, sha_stated, progress,
                 cmd, child, gem, success, msg, parse, hashing, tar, trace, exit_status,
                 orphaned, extract_path>>

\* "if is_root_encrypted(): configure_openrc_dmcrypt()", then return None
DgConfigureDmcrypt ==
  /\ dg.pc = "configure_dmcrypt"
  /\ dmcrypt' = dmcrypt \o configure_openrc_dmcrypt
  /\ dg' = [dg EXCEPT !.pc = "returned", !.configured = TRUE, !.ret = "None"]
  /\ UNCHANGED <<partitions, dracut_conf, gentoopkg_vars>>
  /\ UNCHANGED <<pc, gs, ppid, files, fetch, stage, dl, tar_size, sha_stated, progress,
                 cmd, child, gem, success, msg, parse, hashing, tar, trace, exit_status,
                 orphaned, extract_path>>

\* dracut_gentoo's run() entered: global storage in any state, the partition
\* list fixed, downloadstage3 not running
DgInit ==
  /\ pc = "start"
  /\ gs \in [livecd : {"unset", "yes"}, has_url : {TRUE}, url : {<<"u">>},
             has_name : BOOLEAN, name : DgNames, root : Roots]
  /\ (gs.has_name <=> gs.name # "")
  /\ ppid \in SupervisorPids
  /\ files = [a \in Artifacts |-> "absent"]
  /\ fetch = [a \in Artifacts |-> "none"]
  /\ stage = [s \in Stages |-> "none"]
  /\ dl = NoDl
  /\ tar_size = 0
  /\ sha_stated = "none"
  /\ progress = <<0, 1>>
  /\ cmd = "none"
  /\ child = "none"
  /\ gem = NoGem
  /\ success = FALSE
  /\ msg = "none"
  /\ parse = NoParse
  /\ hashing = NoHashing
  /\ tar = NoTar
  /\ trace = <<>>
  /\ exit_status = 0
  /\ orphaned = FALSE
  /\ extract_path = [tree |-> UnseenTree, pass |-> 1, once |-> UnseenTree]
  /\ \E l \in PartitionLists : partitions = [fixed |-> TRUE, list |-> l]
  /\ dracut_conf = <<>>
  /\ configuration = NoConfiguration
  /\ at = NotStarted
  /\ total_packages = 0
  /\ completed_packages = 0
  /\ group_packages = 0
  /\ mode_packages = "None"
  /\ reported = <<>>
  /\ calls = <<>>
  /\ result = "none"
  /\ dg = [NoDg EXCEPT !.pc = "start"]
  /\ dmcrypt = <<>>

DgNext ==
  \/ DgUserdel
  \/ DgFindInitramfs
  \/ DgEnsureCryptsetup
  \/ DgConfigureDmcrypt

DgSpec == DgInit /\ [][DgNext]_vars

\* ------------------------------------------------------------ gentoopkg
\* operation keys of an entry; "install" stands for "localInstall" as well
\* (install() treats from_local alike), "source" for every key that runs no command
TryKeys     == {"try_install", "try_remove"}
InstallKeys == {"install", "try_install"}
RemoveKeys  == {"remove", "try_remove"}
PackageKeys == InstallKeys \cup RemoveKeys
Keys        == PackageKeys \cup {"source"}

\* values of sync_method; "rsync" stands for any value update_db does not know
SyncMethods == {"none", "sync", "webrsync", "rsync"}

\* a package entry: a plain name, or a dict with optional pre- and post-script
PackageData == {pd \in [dict : BOOLEAN, pre : BOOLEAN, post : BOOLEAN] :
                  ~pd.dict => (~pd.pre /\ ~pd.post)}

\* exit status of the pre-script, of the emerge command and of the post-script
Outcomes == [pre : BOOLEAN, cmd : BOOLEAN, post : BOOLEAN]

call(c, ok) == [cmd |-> c, ok |-> ok]

\* update_db with emerge --sync run after emerge-webrsync whatever its outcome
update_db_sync_always(sync_method) ==
  CASE sync_method = "none" -> {[calls |-> <<>>, raised |-> "no"]}
    [] sync_method = "webrsync" ->
         {[calls |-> <<call("emerge-webrsync", TRUE), call("emerge --sync", TRUE)>>,
           raised |-> "no"],
          [calls |-> <<call("emerge-webrsync", FALSE), call("emerge --sync", TRUE)>>,
           raised |-> "no"],
          [calls |-> <<call("emerge-webrsync", FALSE), call("emerge --sync", FALSE)>>,
           raised |-> "CalledProcessError"]}
    [] sync_method = "sync" ->
         {[calls |-> <<call("emerge --sync", TRUE)>>, raised |-> "no"],
          [calls |-> <<call("emerge --sync", FALSE)>>, raised |-> "CalledProcessError"]}
    [] OTHER -> {[calls |-> <<>>, raised |-> "ValueError"]}

\* update_db(): the commands it runs and the exception it leaves with
update_db(sync_method) ==
  CASE sync_method = "none" -> {[calls |-> <<>>, raised |-> "no"]}
    [] sync_method = "webrsync" ->
         {[calls |-> <<call("emerge-webrsync", TRUE)>>, raised |-> "no"],
          [calls |-> <<call("emerge-webrsync", FALSE), call("emerge --sync", TRUE)>>,
           raised |-> "no"],
          [calls |-> <<call("emerge-webrsync", FALSE), call("emerge --sync", FALSE)>>,
           raised |-> "CalledProcessError"]}
    [] sync_method = "sync" ->
         {[calls |-> <<call("emerge --sync", TRUE)>>, raised |-> "no"],
          [calls |-> <<call("emerge --sync", FALSE)>>, raised |-> "CalledProcessError"]}
    [] OTHER -> {[calls |-> <<>>, raised |-> "ValueError"]}

\* the emerge command a key stands for: install() or remove()
package_cmd(key) == IF key \in RemoveKeys THEN "remove" ELSE "install"

\* install_package / remove_package: a CalledProcessError of the emerge
\* command is caught on the spot when skip_unavailable is set
command_error_caught(skip_unavailable) == skip_unavailable

\* operation_try_install / operation_try_remove catch what a package raises
package_error_caught(key) == key \in TryKeys

\* run() with its handler returning the error whatever skip_unavailable says
run_stops(skip_unavailable) == FALSE

\* run(): a CalledProcessError out of run_operations is only logged when
\* skip_unavailable is set
run_continues(skip_unavailable) == skip_unavailable

\* install_package(packagedata) / remove_package(packagedata): the commands
\* attempted, and whether a CalledProcessError leaves the function
install_package(key, skip_unavailable, pd, o) ==
  LET c == call(package_cmd(key), o.cmd)
      failed == ~o.cmd /\ ~command_error_caught(skip_unavailable)
  IN IF ~pd.dict THEN [calls |-> <<c>>, raised |-> failed]
     ELSE IF pd.pre /\ ~o.pre
       THEN [calls |-> <<call("pre-script", FALSE)>>, raised |-> TRUE]
     ELSE LET before == IF pd.pre THEN <<call("pre-script", TRUE)>> ELSE <<>> IN
       IF failed THEN [calls |-> before \o <<c>>, raised |-> TRUE]
       ELSE IF pd.post
         THEN [calls |-> before \o <<c, call("post-script", o.post)>>, raised |-> ~o.post]
       ELSE [calls |-> before \o <<c>>, raised |-> FALSE]

\* operation_install / operation_remove without skip_unavailable give a list
\* of plain names to one emerge command
whole_list == /\ ~configuration.skip_unavailable
              /\ at.cur \notin TryKeys
              /\ at.all_str

\* run(): GentooPackageManager(), skip_if_no_internet
GpStart ==
  /\ at.pc = "start"
  /\ \E skip_this \in BOOLEAN :
       IF skip_this /\ ~configuration.hasInternet
         THEN at' = [at EXCEPT !.pc = "returned"] /\ result' = "None"
         ELSE at' = [at EXCEPT !.pc = "update_db"] /\ UNCHANGED result
  /\ calls' = <<>>
  /\ UNCHANGED <<configuration, total_packages, completed_packages, group_packages,
                 mode_packages, reported>>
  /\ UNCHANGED <<partitions, dracut_conf, dracut_gentoo_vars>>
  /\ UNCHANGED <<pc, gs, ppid, files, fetch, stage, dl, tar_size, sha_stated, progress,
                 cmd, child, gem, success, msg, parse, hashing, tar, trace, exit_status,
                 orphaned, extract_path>>

\* run(): "if update_db and hasInternet: pkgman.update_db()" and its handler
GpUpdateDb ==
  /\ at.pc = "update_db"
  /\ \E upd \in BOOLEAN :
       IF upd /\ configuration.hasInternet
         THEN \E m \in SyncMethods : \E r \in update_db(m) :
                /\ configuration' = [configuration EXCEPT !.sync_method = m]
                /\ calls' = r.calls
                /\ IF r.raised = "ValueError"
                     THEN at' = [at EXCEPT !.pc = "returned"] /\ result' = "ValueError"
                   ELSE IF r.raised = "CalledProcessError"
                           /\ ~configuration.skip_unavailable
                     THEN at' = [at EXCEPT !.pc = "returned"] /\ result' = "error"
                   ELSE at' = [at EXCEPT !.pc = "update_system"] /\ UNCHANGED result
         ELSE /\ at' = [at EXCEPT !.pc = "update_system"]
              /\ calls' = <<>>
              /\ UNCHANGED <<configuration, result>>
  /\ UNCHANGED <<total_packages, completed_packages, group_packages, mode_packages,
                 reported>>
  /\ UNCHANGED <<partitions, dracut_conf, dracut_gentoo_vars>>
  /\ UNCHANGED <<pc, gs, ppid, files, fetch, stage, dl, tar_size, sha_stated, progress,
                 cmd, child, gem, success, msg, parse, hashing, tar, trace, exit_status,
                 orphaned, extract_path>>

\* run(): "if update_system and hasInternet: pkgman.update_system()"; a
\* failure is returned as an error
GpUpdateSystem ==
  /\ at.pc = "update_system"
  /\ \E upd \in BOOLEAN :
       IF upd /\ configuration.hasInternet
         THEN \E gentoo_world_update \in {"true", "false"} : \E ok \in BOOLEAN :
                /\ configuration' =
                     [configuration EXCEPT !.gentoo_world_update = gentoo_world_update]
                /\ calls' = <<call(IF gentoo_world_update = "true" THEN "update @world"
                                   ELSE "update @system", ok)>>
                /\ IF ok THEN at' = [at EXCEPT !.pc = "count_total"] /\ UNCHANGED result
                         ELSE at' = [at EXCEPT !.pc = "returned"] /\ result' = "error"
         ELSE /\ at' = [at EXCEPT !.pc = "count_total"]
              /\ calls' = <<>>
              /\ UNCHANGED <<configuration, result>>
  /\ UNCHANGED <<total_packages, completed_packages, group_packages, mode_packages,
                 reported>>
  /\ UNCHANGED <<partitions, dracut_conf, dracut_gentoo_vars>>
  /\ UNCHANGED <<pc, gs, ppid, files, fetch, stage, dl, tar_size, sha_stated, progress,
                 cmd, child, gem, success, msg, parse, hashing, tar, trace, exit_status,
                 orphaned, extract_path>>

\* run(): read the operations, reset the counters, add up the lengths of all
\* package lists; "if not total_packages: return None"
GpCountTotal ==
  /\ at.pc = "count_total"
  /\ \E total \in 0 .. MaxTotal :
       /\ total_packages' = total
       /\ IF total = 0
            THEN at' = [at EXCEPT !.pc = "returned"] /\ result' = "None"
            ELSE at' = [at EXCEPT !.pc = "entry", !.left = total] /\ UNCHANGED result
  /\ mode_packages' = "None"
  /\ completed_packages' = 0
  /\ calls' = <<>>
  /\ UNCHANGED <<configuration, group_packages, reported>>
  /\ UNCHANGED <<partitions, dracut_conf, dracut_gentoo_vars>>
  /\ UNCHANGED <<pc, gs, ppid, files, fetch, stage, dl, tar_size, sha_stated, progress,
                 cmd, child, gem, success, msg, parse, hashing, tar, trace, exit_status,
                 orphaned, extract_path>>

\* run(): "for entry in operations": the next entry, or after the last one
\* setprogress(1.0) and return None
GpNextEntry ==
  /\ at.pc = "entry"
  /\ \/ /\ at.entry < MaxEntries
        /\ at' = [at EXCEPT !.pc = "key", !.entry = @ + 1, !.key = 0, !.used = {}]
        /\ group_packages' = 0
        /\ UNCHANGED <<mode_packages, reported, result>>
     \/ /\ at.left = 0
        /\ mode_packages' = "None"
        /\ reported' = <<1, 1>>
        /\ result' = "None"
        /\ at' = [at EXCEPT !.pc = "returned"]
        /\ UNCHANGED group_packages
  /\ calls' = <<>>
  /\ UNCHANGED <<configuration, total_packages, completed_packages>>
  /\ UNCHANGED <<partitions, dracut_conf, dracut_gentoo_vars>>
  /\ UNCHANGED <<pc, gs, ppid, files, fetch, stage, dl, tar_size, sha_stated, progress,
                 cmd, child, gem, success, msg, parse, hashing, tar, trace, exit_status,
                 orphaned, extract_path>>

\* run_operations(): "for key in entry.keys()": the next key with its package
\* list and _change_mode, or after the last key group_packages = 0 and
\* _change_mode(None)
GpNextKey ==
  /\ at.pc = "key"
  /\ \/ /\ at.key < MaxKeys
        /\ \E k \in Keys \ at.used : \E n \in 0 .. at.left : \E strs \in BOOLEAN :
             /\ (at.entry = MaxEntries /\ at.key + 1 = MaxKeys) => n = at.left
             /\ strs <=> (/\ k \in PackageKeys \ TryKeys
                          /\ ~configuration.skip_unavailable
                          /\ (n = 0 \/ strs))
             /\ group_packages' = n
             /\ at' = [at EXCEPT !.key = @ + 1, !.used = @ \cup {k}, !.cur = k, !.n = n,
                                 !.left = @ - n, !.package = 0, !.all_str = strs,
                                 !.seen_dict = FALSE,
                                 !.pc = IF k \in PackageKeys /\ (n > 0 \/ strs)
                                          THEN "package" ELSE "key_done"]
             /\ IF k \in PackageKeys
                  THEN /\ mode_packages' = IF k \in RemoveKeys THEN "REMOVE" ELSE "INSTALL"
                       /\ reported' = <<completed_packages, total_packages>>
                  ELSE UNCHANGED <<mode_packages, reported>>
     \/ /\ at.entry = MaxEntries => at.left = 0
        /\ group_packages' = 0
        /\ mode_packages' = "None"
        /\ reported' = <<completed_packages, total_packages>>
        /\ at' = [at EXCEPT !.pc = "entry"]
  /\ calls' = <<>>
  /\ UNCHANGED <<configuration, total_packages, completed_packages, result>>
  /\ UNCHANGED <<partitions, dracut_conf, dracut_gentoo_vars>>
  /\ UNCHANGED <<pc, gs, ppid, files, fetch, stage, dl, tar_size, sha_stated, progress,
                 cmd, child, gem, success, msg, parse, hashing, tar, trace, exit_status,
                 orphaned, extract_path>>

\* a CalledProcessError reaches run(): an error is returned, or with
\* skip_unavailable the rest of the entry is given up and the loop goes on
ErrorReachesRun ==
  IF run_continues(configuration.skip_unavailable)
    THEN /\ \E rest \in 0 .. at.left :
              /\ at.entry = MaxEntries => rest = at.left
              /\ at' = [at EXCEPT !.pc = "entry", !.left = @ - rest, !.cur = "none",
                                  !.n = 0, !.package = 0, !.all_str = FALSE,
                                  !.seen_dict = FALSE]
         /\ UNCHANGED result
    ELSE /\ at' = [at EXCEPT !.pc = "returned"]
         /\ result' = "error"

\* operation_install / operation_try_install / operation_remove /
\* operation_try_remove: one emerge command for a list of plain names, or one
\* package of the list with its scripts
GpPackage ==
  /\ at.pc = "package"
  /\ IF whole_list
       THEN \E ok \in BOOLEAN :
              /\ calls' = <<call(package_cmd(at.cur), ok)>>
              /\ IF ok THEN at' = [at EXCEPT !.pc = "key_done"] /\ UNCHANGED result
                       ELSE ErrorReachesRun
       ELSE \E pd \in PackageData : \E o \in Outcomes :
              LET r == install_package(at.cur, configuration.skip_unavailable, pd, o)
                  must_be_dict == /\ ~configuration.skip_unavailable
                                  /\ at.cur \notin TryKeys
                                  /\ at.package + 1 = at.n
                                  /\ ~at.seen_dict
              IN /\ must_be_dict => pd.dict
                 /\ (~pd.pre => o.pre) /\ (~pd.post => o.post)  \* no script, no failure
                 /\ calls' = r.calls
                 /\ IF r.raised /\ ~package_error_caught(at.cur)
                      THEN ErrorReachesRun
                      ELSE /\ at' = [at EXCEPT !.package = @ + 1,
                                               !.seen_dict = @ \/ pd.dict,
                                               !.pc = IF at.package + 1 = at.n
                                                        THEN "key_done" ELSE "package"]
                           /\ UNCHANGED result
  /\ UNCHANGED <<configuration, total_packages, completed_packages, group_packages,
                 mode_packages, reported>>
  /\ UNCHANGED <<partitions, dracut_conf, dracut_gentoo_vars>>
  /\ UNCHANGED <<pc, gs, ppid, files, fetch, stage, dl, tar_size, sha_stated, progress,
                 cmd, child, gem, success, msg, parse, hashing, tar, trace, exit_status,
                 orphaned, extract_path>>

\* run_operations(): "completed_packages += len(package_list)", setprogress
GpKeyDone ==
  /\ at.pc = "key_done"
  /\ completed_packages' = completed_packages + at.n
  /\ reported' = <<completed_packages + at.n, total_packages>>
  /\ at' = [at EXCEPT !.pc = "key", !.cur = "none", !.n = 0, !.package = 0,
                      !.all_str = FALSE, !.seen_dict = FALSE]
  /\ calls' = <<>>
  /\ UNCHANGED <<configuration, total_packages, group_packages, mode_packages, result>>
  /\ UNCHANGED <<partitions, dracut_conf, dracut_gentoo_vars>>
  /\ UNCHANGED <<pc, gs, ppid, files, fetch, stage, dl, tar_size, sha_stated, progress,
                 cmd, child, gem, success, msg, parse, hashing, tar, trace, exit_status,
                 orphaned, extract_path>>

\* gentoopkg's run() entered; downloadstage3 and dracut_gentoo not running
GpInit ==
  /\ pc = "start"
  /\ gs = [livecd |-> "unset", has_url |-> TRUE, url |-> <<"u">>,
           has_name |-> TRUE, name |-> "stage3-openrc.tar.xz", root |-> "/target"]
  /\ ppid \in SupervisorPids
  /\ files = [a \in Artifacts |-> "absent"]
  /\ fetch = [a \in Artifacts |-> "none"]
  /\ stage = [s \in Stages |-> "none"]
  /\ dl = NoDl
  /\ tar_size = 0
  /\ sha_stated = "none"
  /\ progress = <<0, 1>>
  /\ cmd = "none"
  /\ child = "none"
  /\ gem = NoGem
  /\ success = FALSE
  /\ msg = "none"
  /\ parse = NoParse
  /\ hashing = NoHashing
  /\ tar = NoTar
  /\ trace = <<>>
  /\ exit_status = 0
  /\ orphaned = FALSE
  /\ extract_path = [tree |-> UnseenTree, pass |-> 1, once |-> UnseenTree]
  /\ partitions = NoPartitions
  /\ dracut_conf = <<>>
  /\ configuration \in [skip_unavailable : BOOLEAN, hasInternet : BOOLEAN,
                        sync_method : {"unread"}, gentoo_world_update : {"unread"}]
  /\ at = [NotStarted EXCEPT !.pc = "start"]
  /\ total_packages = 0
  /\ completed_packages = 0
  /\ group_packages = 0
  /\ mode_packages = "None"
  /\ reported = <<>>
  /\ calls = <<>>
  /\ result = "none"
  /\ dg = NoDg
  /\ dmcrypt = <<>>

GpNext ==
  \/ GpStart
  \/ GpUpdateDb
  \/ GpUpdateSystem
  \/ GpCountTotal
  \/ GpNextEntry
  \/ GpNextKey
  \/ GpPackage
  \/ GpKeyDone

GpSpec == GpInit /\ [][GpNext]_vars

\* ------------------------------------------------- properties of run()
Has(e)     == \E i \in DOMAIN trace : trace[i] = e
HasKind(k) == \E i \in DOMAIN trace : trace[i][1] = k

\* position of the first e in the trace, 0 when there is none
Pos(e) == IF Has(e) THEN CHOOSE i \in DOMAIN trace :
                           trace[i] = e /\ \A j \in 1 .. (i - 1) : trace[j] # e
          ELSE 0

\* run() got past the verification chain: the archive is about to be, or was, opened
Trusted == pc = "tar_open" \/ HasKind("tar")

\* C1: when sha256sum reports a mismatch, the run ends at once with a non-zero
\* exit status: gemato is never run, the DIGESTS file is never parsed, nothing
\* is hashed, the archive is never opened and no member is extracted.
C1_ChecksumFailureStopsRun ==
  stage["checksum"] = "failed" =>
    /\ pc = "exited"
    /\ exit_status # 0
    /\ ~HasKind("gemato") /\ ~HasKind("parse") /\ ~HasKind("hash") /\ ~HasKind("tar")
    /\ stage["sig"] = "none" /\ stage["manifest"] = "none"
    /\ tar = NoTar

\* C1 witness: a checksum mismatch with both optional artifacts downloaded
C1_Witness ==
  /\ stage["checksum"] = "failed"
  /\ sha_stated # SHA256_OF_TAR
  /\ files["asc"] = "complete" /\ files["digests"] = "complete"

\* C2: a signature or manifest stage is skipped exactly when its file is absent
\* and a skip never fails the run; a stage that was attempted and failed always
\* fails the run; once every stage is decided the archive is trusted iff no
\* stage failed.
C2_TrustIsConjunction ==
  /\ \A s \in {"sig", "manifest"} :
       stage[s] = "failed" => (pc = "exited" /\ exit_status = 1 /\ ~Trusted)
  /\ (stage["sig"] = "skipped" => ~exists("asc") /\ ~Has(<<"gemato", "asc">>))
  /\ (stage["manifest"] = "skipped" => ~exists("digests") /\ ~Has(<<"gemato", "digests">>))
  /\ (stage["sig"] = "failed" => exists("asc") /\ Has(<<"gemato", "asc">>))
  /\ (stage["manifest"] = "failed" => exists("digests") /\ Has(<<"gemato", "digests">>))
  /\ ((\A s \in Stages : stage[s] # "none") =>
        (Trusted <=> \A s \in Stages : stage[s] # "failed"))
  /\ (Trusted => \A s \in Stages : stage[s] \in {"passed", "skipped"})

\* C2 witness: the signature stage was skipped, the manifest stage passed, and
\* the run succeeded
C2_Witness ==
  /\ stage["sig"] = "skipped"
  /\ stage["manifest"] = "passed"
  /\ pc = "returned"

\* C3: gemato is run on the .asc file only after sha256sum passed, and on the
\* DIGESTS file only after the signature stage passed or was skipped; after a
\* failed signature stage the manifest stage is never attempted.
C3_StageOrder ==
  /\ ((Has(<<"gemato", "asc">>) \/ (pc = "gemato_run" /\ gem.target = "asc")) =>
        stage["checksum"] = "passed")
  /\ (Has(<<"gemato", "asc">>) =>
        (0 < Pos(<<"spawn", "sha256sum">>)
         /\ Pos(<<"spawn", "sha256sum">>) < Pos(<<"gemato", "asc">>)))
  /\ ((Has(<<"gemato", "digests">>) \/ (pc = "gemato_run" /\ gem.target = "digests")) =>
        (stage["checksum"] = "passed" /\ stage["sig"] \in {"passed", "skipped"}))
  /\ (Has(<<"gemato", "digests">>) =>
        (/\ 0 < Pos(<<"spawn", "sha256sum">>)
         /\ Pos(<<"spawn", "sha256sum">>) < Pos(<<"gemato", "digests">>)
         /\ Pos(<<"gemato", "asc">>) < Pos(<<"gemato", "digests">>)))
  /\ (stage["sig"] = "failed" =>
        (/\ pc = "exited"
         /\ stage["manifest"] = "none"
         /\ ~Has(<<"gemato", "digests">>) /\ ~HasKind("parse") /\ ~HasKind("hash")))

\* C3 witness: all three stages were attempted, in order, and passed
C3_Witness ==
  /\ \A s \in Stages : stage[s] = "passed"
  /\ Has(<<"gemato", "asc">>) /\ Has(<<"gemato", "digests">>)

C5_ManifestSignatureFirst ==
  /\ ((HasKind("parse") \/ HasKind("hash")
       \/ pc \in {"parse_entry", "parse_loop", "digest_check", "hash_loop", "hash_chunks"}) =>
        (/\ Has(<<"gemato", "digests">>)
         /\ success /\ msg = "Verified with gemato"
         /\ (HasKind("parse") => Pos(<<"gemato", "digests">>) < Pos(<<"parse", "digests">>))))
  /\ ((Has(<<"gemato", "digests">>) /\ pc \notin {"gemato_wait", "gemato_decide"} /\ ~success) =>
        (/\ stage["manifest"] = "failed"
         /\ pc = "exited"
         /\ ~HasKind("parse") /\ ~HasKind("hash")))

\* C5 witness: a DIGESTS file signed by another key: the stage failed unparsed
C5_Witness ==
  /\ Has(<<"gemato", "digests">>)
  /\ msg = "Wrong signing key"
  /\ stage["manifest"] = "failed"
  /\ ~HasKind("parse")

\* every hash listed in the entry e is a supported one and equals the archive's digest
entry_matches(e) ==
  /\ e # <<>>
  /\ \A i \in 1 .. Len(e) :
       \/ e[i][1] = "SHA512"  /\ e[i][2] = SHA512_OF_TAR
       \/ e[i][1] = "BLAKE2B" /\ e[i][2] = BLAKE2B_OF_TAR

\* C6: when the manifest stage gets its result, it is "passed" only if the parsed
\* manifest has an entry for the archive and every hash listed in it matches;
\* otherwise (a mismatch, no entry, nothing parsed) it is "failed", and a failed
\* manifest stage exits the run with status 1.
C6_ManifestVerdict ==
  [][(stage["manifest"] = "none" /\ stage'["manifest"] \in {"passed", "failed"}) =>
       /\ (stage'["manifest"] = "passed" =>
             (entry_matches(parse.file_hashes[STAGE3]) /\ pc' = "tar_open"))
       /\ (stage'["manifest"] = "failed" => (pc' = "exited" /\ exit_status' = 1))
    ]_vars

\* C6 witness: SHA512 and BLAKE2B were both listed, both hashed, and the stage passed
C6_Witness ==
  /\ stage["manifest"] = "passed"
  /\ Has(<<"hash", "SHA512">>) /\ Has(<<"hash", "BLAKE2B">>)
  /\ Trusted

\* the entry e lists a hash type calculate_hash does not know
has_unsupported(e) == \E i \in 1 .. Len(e) : e[i][1] \notin {"SHA512", "BLAKE2B"}

\* C7: when the archive's entry lists an unsupported hash type, the manifest
\* stage fails and the run exits, whatever the supported hashes of the entry say.
C7_UnsupportedAlgorithmFails ==
  [][(/\ stage["manifest"] = "none"
      /\ stage'["manifest"] # "none"
      /\ has_unsupported(parse.file_hashes[STAGE3])) =>
       (stage'["manifest"] = "failed" /\ pc' = "exited" /\ exit_status' = 1)
    ]_vars

\* C7 witness: the entry lists a matching SHA512 and then WHIRLPOOL; SHA512 was
\* hashed, and the stage failed
C7_Witness ==
  /\ pc = "exited"
  /\ stage["manifest"] = "failed"
  /\ parse.file_hashes[STAGE3] =
       << <<"SHA512", SHA512_OF_TAR>>, <<"WHIRLPOOL", BLAKE2B_OF_TAR>> >>
  /\ Has(<<"hash", "SHA512">>)
  /\ hashing.done = <<"SHA512", "WHIRLPOOL">>

\* C8 (as claimed): a failed transfer of the .asc or DIGESTS file always leaves
\* its stage undecided or skipped, never passed or failed; a failed transfer of
\* the archive or of the .sha256 file ends run() before any verification.
C8_OptionalFetchFailureIsSkipped ==
  /\ (fetch["asc"] = "failed" => stage["sig"] \in {"none", "skipped"})
  /\ (fetch["digests"] = "failed" => stage["manifest"] \in {"none", "skipped"})
  /\ ((fetch["tar"] = "failed" \/ fetch["sha256"] = "failed") =>
        (/\ pc = "raised"
         /\ ~HasKind("spawn") /\ ~HasKind("gemato") /\ ~HasKind("tar")))

\* C9: with GENTOO_LIVECD = "yes" nothing is downloaded, verified or extracted;
\* the only command ever spawned is the one rsync, and run() returns right
\* after it, whether or not the URL and archive name are configured.
C9_LiveModeOnlyCopies ==
  gs.livecd = "yes" =>
    /\ \A a \in Artifacts : fetch[a] = "none"
    /\ \A s \in Stages : stage[s] = "none"
    /\ tar = NoTar /\ parse = NoParse /\ hashing = NoHashing
    /\ Len(trace) <= 1
    /\ \A i \in DOMAIN trace : trace[i] = <<"spawn", "rsync">>
    /\ (pc = "returned" => trace = << <<"spawn", "rsync">> >>)
    /\ pc \in {"start", "saferun_entry", "saferun_poll"} \cup Terminal

\* C9 witness: live mode succeeded with neither URL nor archive name configured
C9_Witness ==
  /\ gs.livecd = "yes"
  /\ pc = "returned"
  /\ ~gs.has_url /\ ~gs.has_name

\* C10 (as claimed): once a loop iteration (progress hook, hash chunk, DIGESTS
\* line, archive member, command poll) began with the parent gone, the run does
\* no further work: no chunk hashed, no line parsed, no member extracted, and
\* no later stage has any effect.
C10_OrphanStopsAtLoopBoundary ==
  [][orphaned' =>
       /\ trace' = trace
       /\ tar'.i = tar.i
       /\ parse'.lines = parse.lines
       /\ hashing'.chunks <= hashing.chunks
    ]_vars

\* a command the pipeline started and has not yet seen exit
CommandRunning == (pc = "saferun_poll" /\ child = "running") \/ pc = "gemato_wait"

\* C11 (as claimed): whenever the pipeline stops waiting for a command that is
\* still running while the supervisor is gone (ppid = 1), it is because it
\* terminated or killed the child and then exited; it never goes on to use the
\* result of a command it waited for after the supervisor's death.
C11_CommandsPolledAndKilled ==
  [][(CommandRunning /\ ppid = 1 /\ pc' # pc) =>
       /\ pc' = "exited"
       /\ exit_status' = 1
       /\ (pc = "saferun_poll" => child' \in {"terminated", "killed"})
    ]_vars

\* progress values a/b and c/d with b, d > 0: a/b <= c/d
ProgressLeq(x, y) == x[1] * y[2] <= y[1] * x[2]

\* C13 (as claimed): every value given to job.setprogress lies in [0, 100] and
\* is at least the value reported before it.
C13_ProgressMonotoneInRange ==
  [][/\ ProgressLeq(progress, progress')
     /\ ProgressLeq(<<0, 1>>, progress')
     /\ ProgressLeq(progress', <<100, 1>>)
    ]_vars

StageRank(e) ==
  CASE e = <<"fetch", "tar">>       -> 1
    [] e = <<"fetch", "sha256">>    -> 2
    [] e = <<"fetch", "asc">>       -> 3
    [] e = <<"fetch", "digests">>   -> 4
    [] e = <<"spawn", "sha256sum">> -> 5
    [] e = <<"gemato", "asc">>      -> 6
    [] e = <<"gemato", "digests">>  -> 7
    [] e[1] \in {"parse", "hash"}   -> 7
    [] e[1] = "tar"                 -> 8
    [] e = <<"remove", "tmp">>      -> 8
    [] e = <<"write", "resolv.conf">> -> 9
    [] e = <<"write", "package.use">> -> 9
    [] e[1] = "spawn" /\ e[2] \in {"getuto", "webrsync", "emerge", "emerge1"} -> 9
    [] e = <<"clean", "cache">>     -> 10
    [] e = <<"remove", "repo">>     -> 10
    [] e = <<"write", "dracut.conf">> -> 11
    [] OTHER                        -> 0

input_missing ==
  \/ ~gs.has_url
  \/ ~gs.has_name
  \/ \A i \in DOMAIN gs.url : gs.url[i] = "/"
  \/ gs.name = ""
  \/ gs.root = ""

\* C18: in non-live mode, with a required input missing or empty, the first
\* step of run() raises, and it has removed no file, fetched nothing and
\* started no command.
C18_MissingInputFailsFirst ==
  [][(pc = "start" /\ gs.livecd # "yes" /\ input_missing /\ pc' # pc) =>
       /\ pc' = "raised"
       /\ files' = files /\ fetch' = fetch /\ trace' = trace
       /\ child' = "none" /\ stage' = stage
    ]_vars

\* C18 witness: a URL of two slashes, everything else configured, stale files
\* of an earlier run still in place after run() raised
C18_Witness ==
  /\ pc = "raised"
  /\ gs.livecd # "yes"
  /\ gs.has_url /\ gs.url = <<"/", "/">>
  /\ gs.has_name /\ gs.name # "" /\ gs.root # ""
  /\ \A a \in Artifacts : files[a] = "stale"
  /\ trace = <<>>

\* C19 (as claimed): when the emerge of the fixed package set is started, both
\* the package.use snippet and the dracut snippet have been written.
C19_SnippetsBeforeEmerge ==
  Has(<<"spawn", "emerge">>) =>
    /\ 0 < Pos(<<"write", "package.use">>)
    /\ Pos(<<"write", "package.use">>) < Pos(<<"spawn", "emerge">>)
    /\ 0 < Pos(<<"write", "dracut.conf">>)
    /\ Pos(<<"write", "dracut.conf">>) < Pos(<<"spawn", "emerge">>)

\* C19 (amended): the package.use snippet is written before emerge-webrsync and
\* the emerge of the fixed package set are started; the dracut snippet is
\* written only after the last emerge command of run() was started and exited
\* with 0, as the last effect of run() before it returns.
C19_PackageUseBeforeDracutAfter ==
  /\ ((Has(<<"spawn", "webrsync">>) \/ Has(<<"spawn", "emerge">>)) =>
        (/\ 0 < Pos(<<"write", "package.use">>)
         /\ Has(<<"spawn", "webrsync">>)
         /\ Pos(<<"write", "package.use">>) < Pos(<<"spawn", "webrsync">>)))
  /\ (Has(<<"spawn", "emerge">>) =>
        Pos(<<"spawn", "webrsync">>) < Pos(<<"spawn", "emerge">>))
  /\ (Has(<<"write", "dracut.conf">>) =>
        (/\ 0 < Pos(<<"spawn", "emerge">>)
         /\ Pos(<<"spawn", "emerge">>) < Pos(<<"spawn", "emerge1">>)
         /\ Pos(<<"spawn", "emerge1">>) < Pos(<<"write", "dracut.conf">>)
         /\ trace[Len(trace)] = <<"write", "dracut.conf">>
         /\ pc = "returned"))
  /\ ((pc = "returned" /\ gs.livecd # "yes") => Has(<<"write", "dracut.conf">>))

\* C19 witness: run() returned with both snippets written
C19_Witness ==
  /\ pc = "returned"
  /\ Has(<<"write", "package.use">>)
  /\ Has(<<"write", "dracut.conf">>)

BootstrapCommands == {"getuto", "webrsync", "emerge", "emerge1"}

\* C20: the bootstrap commands are started in the order getuto,
\* emerge-webrsync, emerge, emerge -q1, each at most once and each after the
\* one before it; _safe_run goes on only from a child that exited with 0, and
\* otherwise the run exits with status 1 on the spot, with no further effect.
C20_BootstrapInOrder ==
  [][/\ ((pc = "saferun_poll" /\ cmd \in BootstrapCommands /\ pc' # pc) =>
           IF child = "exit0"
             THEN pc' = after_cmd(cmd).pc /\ pc' \notin Terminal
             ELSE pc' = "exited" /\ exit_status' = 1 /\ trace' = trace)
     /\ \A c \in BootstrapCommands :
          (~Has(<<"spawn", c>>) /\ trace' = Append(trace, <<"spawn", c>>)) =>
            CASE c = "getuto"   -> \A d \in BootstrapCommands : ~Has(<<"spawn", d>>)
              [] c = "webrsync" -> trace[Len(trace) - 1] = <<"spawn", "getuto">>
              [] c = "emerge"   -> trace[Len(trace)] = <<"spawn", "webrsync">>
              [] c = "emerge1"  -> trace[Len(trace)] = <<"spawn", "emerge">>
     /\ \A c \in BootstrapCommands :
          Has(<<"spawn", c>>) => trace' # Append(trace, <<"spawn", c>>)
    ]_vars

\* C20 witness: emerge-webrsync exited non-zero after getuto succeeded, and
\* the run ended there
C20_Witness ==
  /\ pc = "exited"
  /\ cmd = "webrsync" /\ child = "exit1"
  /\ Has(<<"spawn", "getuto">>)
  /\ trace[Len(trace)] = <<"spawn", "webrsync">>

\* C15: in the extraction loop, an OSError with errno 17 leaves the run in the
\* loop, which goes on to the next member with the path left as it was; a
\* successful extract writes the member; any other OSError ends run() on the
\* spot with the cursor on the failed member and nothing of a later stage done.
\* The loop is left for the next stage only when every member was processed.
C15_CollisionToleratedOtherErrorsFatal ==
  [][/\ ((pc = "extract_loop" /\ tar.i < tar.total_members /\ ppid # 1 /\ ppid' = ppid) =>
           LET p == tar.members[tar.i + 1] IN
           /\ tar'.errno = EEXIST =>
                (/\ pc' = "extract_loop"
                 /\ tar'.i = tar.i + 1
                 /\ tar'.collisions = tar.collisions + 1
                 /\ tar'.extracted = tar.extracted
                 /\ extract_path'.tree[p] \in {"other", "archive", "partial"}
                 /\ extract_path'.tree[p] \in resolve(extract_path.tree[p]))
           /\ tar'.errno = 0 =>
                (/\ pc' = "extract_loop"
                 /\ tar'.i = tar.i + 1
                 /\ tar'.extracted = tar.extracted + 1
                 /\ extract_path'.tree[p] = "archive")
           /\ tar'.errno \notin {0, EEXIST} =>
                (/\ pc' = "raised"
                 /\ tar'.i = tar.i
                 /\ trace' = trace /\ files' = files))
     /\ ((pc = "extract_loop" /\ pc' \notin {"extract_loop", "raised", "exited"}) =>
           (/\ pc' = "cleanup"
            /\ tar.i = tar.total_members
            /\ tar.extracted + tar.collisions = tar.total_members))
    ]_vars

\* C15 witness: the first of two members collided with something already
\* there, the second was extracted after it, and the loop ended normally
C15_Witness ==
  /\ pc = "cleanup"
  /\ tar.members = <<1, 2>>
  /\ tar.collisions = 1 /\ tar.extracted = 1
  /\ extract_path.tree[1] = "other"
  /\ extract_path.tree[2] = "archive"

\* C16: starting from an empty target directory, a pass of the extraction
\* stage that ends normally leaves exactly the archive's members, each whole;
\* a second pass on the same archive that ends normally leaves the same tree;
\* and in the second pass no collision (errno 17) ends the run.
C16_ExtractionIdempotent ==
  [][/\ (pc' = "cleanup" =>
           (/\ \A p \in Paths :
                 extract_path'.tree[p] =
                   IF \E k \in DOMAIN tar'.members : tar'.members[k] = p
                     THEN "archive" ELSE "absent"
            /\ (extract_path'.pass = 2 => extract_path'.tree = extract_path'.once)))
     /\ ((/\ extract_path.pass = 2 /\ pc = "extract_loop"
          /\ tar.i < tar.total_members /\ ppid # 1 /\ ppid' = ppid
          /\ tar'.errno = EEXIST) =>
           (pc' = "extract_loop" /\ extract_path'.tree = extract_path.tree))
    ]_vars

\* C16 witness: a second pass over two members ended normally, after
\* colliding with what the first pass wrote
C16_Witness ==
  /\ extract_path.pass = 2
  /\ pc = "cleanup"
  /\ tar.total_members = 2
  /\ tar.collisions > 0
  /\ extract_path.tree = extract_path.once

\* C21: the package-repository metadata directory (var/db/repos/gentoo) is
\* removed only when the host signals the live execution mode
C21_RepoRemovedOnlyInLiveMode ==
  Has(<<"remove", "repo">>) => gs.livecd = "yes"

\* the algorithm of the most recent "# <ALGO> HASH" header above line i of the
\* text t, "None" when no header precedes it
section_of(t, i) ==
  IF \E j \in 1 .. (i - 1) : t[j].kind = "header"
    THEN t[CHOOSE j \in 1 .. (i - 1) :
             /\ t[j].kind = "header"
             /\ \A m \in (j + 1) .. (i - 1) : t[m].kind # "header"].algo
    ELSE "None"

\* the hash lines for file f among the first k lines of t that stand under a header of a
lines_under(t, k, f, a) ==
  {i \in 1 .. k : t[i].kind = "hash" /\ t[i].file = f /\ section_of(t, i) = a}

\* C22: after any number of lines of a DIGESTS file, the result of
\* parse_digests_file holds for each file exactly the algorithms under whose
\* header a hash line of the file appeared, each with the hash of the last
\* such line; hash lines before the first header, armor lines and malformed
\* lines add nothing, and no line makes parsing fail
C22_ParseAttributesToLastHeader ==
  /\ parse.lines <= parse.nlines
  /\ pc \in {"parse_loop", "digest_check"} \/ (pc = "exited" /\ ppid = 1)
  /\ \A f \in {STAGE3, OTHERFILE} :
       LET e == parse.file_hashes[f] IN
         /\ \A n, m \in DOMAIN e : e[n][1] = e[m][1] => n = m
         /\ \A n \in DOMAIN e : e[n][1] \in HashTypes
         /\ \A a \in HashTypes :
              LET S == lines_under(parse.text, parse.lines, f, a) IN
                IF S = {}
                  THEN \A n \in DOMAIN e : e[n][1] # a
                  ELSE \E n \in DOMAIN e :
                         e[n] = <<a, parse.text[CHOOSE i \in S : \A j \in S : j <= i].hash>>

\* C22 witness: a file with a hash line above the first header, a header, a
\* hash line under it and a line that is no hash line, read to its end
C22_Witness ==
  /\ pc = "digest_check"
  /\ parse.lines = 4
  /\ parse.text[1].kind = "hash" /\ parse.text[1].file = STAGE3
  /\ parse.text[2].kind = "header"
  /\ parse.text[3].kind = "hash" /\ parse.text[3].file = STAGE3
  /\ parse.text[4].kind \in {"armor", "junk"}
  /\ Len(parse.file_hashes[STAGE3]) = 1

\* C26: no file left by an earlier run is in place once the downloads start,
\* and gemato is only ever run on a signature or manifest whose retrieval
\* succeeded in this run (a failed retrieval leaves its stage skipped)
C26_OnlyFetchedArtifactsVerified ==
  /\ ((\E a \in Artifacts : fetch[a] # "none") => \A a \in Artifacts : files[a] # "stale")
  /\ \A a \in {"asc", "digests"} : Has(<<"gemato", a>>) => fetch[a] = "ok"

\* "systemd" occurs in the name n, each letter in either case
systemd_any_case(n) ==
  \E i \in 0 .. (Len(n) - Len(SYSTEMD)) :
    \A k \in DOMAIN SYSTEMD :
      \E u \in DOMAIN LOWERCASE :
        LOWERCASE[u] = SYSTEMD[k] /\ n[i + k] \in {LOWERCASE[u], UPPERCASE[u]}

\* C28: the file written by write_dracut_config always holds the two hostonly
\* settings; it holds the plymouth-only omit line iff the archive name contains
\* "systemd" in any letter case, otherwise the line omitting the systemd
\* modules; and it holds the crypt/dm/rootfs-block line iff the name does not
\* contain "systemd" and some partition has mount point "/" and a luksMapperName.
C28_DracutProfileFromInputs ==
  pc = "returned" =>
    LET conf == {dracut_conf[i] : i \in DOMAIN dracut_conf}
        sysd == systemd_any_case(Spelling(gs.name))
        luks_root == \E i \in DOMAIN partitions.list :
                       /\ partitions.list[i].mountPoint = "/"
                       /\ partitions.list[i].luks
    IN /\ HOSTONLY \in conf /\ HOSTONLY_CMDLINE \in conf
       /\ (OMIT_PLYMOUTH \in conf <=> sysd)
       /\ (OMIT_SYSTEMD \in conf <=> ~sysd)
       /\ (ADD_CRYPT \in conf <=> (~sysd /\ luks_root))

\* C28 witness: an OpenRC archive with an encrypted root next to an
\* unencrypted /boot got the encryption modules
C28_Witness ==
  /\ pc = "returned"
  /\ ~systemd_any_case(Spelling(gs.name))
  /\ Len(partitions.list) = 2
  /\ partitions.list[1].mountPoint = "/boot" /\ ~partitions.list[1].luks
  /\ partitions.list[2].mountPoint = "/" /\ partitions.list[2].luks
  /\ dracut_conf = <<HOSTONLY, HOSTONLY_CMDLINE, OMIT_SYSTEMD, ADD_CRYPT>>

\* C30: when dracut_gentoo's run() has called configure_openrc_dmcrypt, the
\* dmcrypt file holds one entry for a partition iff the stage is not systemd
\* and the partition has a luksMapperName and is neither mounted at "/" nor a
\* linuxswap file system, the entries are in list order, and an entry carries
\* the key line iff no partition mounted at /boot lacks a luksMapperName; for
\* a systemd stage nothing is written, and nothing is written when the
\* function was not called (as with an empty partition list).
C30_DmcryptEntries ==
  LET parts == partitions.list
      sysd == gs.has_name /\ systemd_any_case(Spelling(gs.name))
      wanted(i) == /\ ~sysd
                   /\ parts[i].luks
                   /\ parts[i].mountPoint # "/"
                   /\ parts[i].fs # "linuxswap"
      plain_boot == \E i \in DOMAIN parts : parts[i].mountPoint = "/boot" /\ ~parts[i].luks
  IN /\ (~dg.configured => dmcrypt = <<>>)
     /\ (dg.configured =>
           /\ \A i \in DOMAIN parts :
                wanted(i) <=> \E n \in DOMAIN dmcrypt : dmcrypt[n].partition = i
           /\ \A n, m \in DOMAIN dmcrypt : n < m => dmcrypt[n].partition < dmcrypt[m].partition
           /\ \A n \in DOMAIN dmcrypt : dmcrypt[n].key <=> ~plain_boot)
     /\ ((sysd \/ parts = <<>>) => dmcrypt = <<>>)

\* C30 witness: OpenRC, encrypted root, unencrypted /boot and an encrypted
\* /home: one entry, for /home, without the key line
C30_Witness ==
  /\ dg.pc = "returned" /\ dg.configured
  /\ Len(partitions.list) = 3
  /\ partitions.list[1].mountPoint = "/" /\ partitions.list[1].luks
  /\ partitions.list[2].mountPoint = "/boot" /\ ~partitions.list[2].luks
  /\ partitions.list[3].mountPoint = "/home" /\ partitions.list[3].luks
  /\ partitions.list[3].fs = "ext4"
  /\ dmcrypt = << [partition |-> 3, key |-> FALSE] >>

\* C23: with skip_unavailable set, no step of the package loop in which an
\* install or remove command fails makes run() return an error: the run goes
\* on; run() returns an error only out of update_system, never once the
\* operations are being processed; and the operations loop ends with None.
C23_SkipUnavailableNeverFails ==
  [][configuration.skip_unavailable =>
       /\ ((/\ at.pc = "package"
            /\ \E i \in DOMAIN calls' :
                 calls'[i].cmd \in {"install", "remove"} /\ ~calls'[i].ok) =>
              (result' = "none" /\ at'.pc \in {"package", "key_done", "entry"}))
       /\ ((result' = "error" /\ result # "error") => at.pc = "update_system")
       /\ ((at.pc = "entry" /\ at'.pc = "returned") => result' = "None")
    ]_vars

\* C23 witness: with skip_unavailable, an install command failed in the last
\* step and the package loop goes on with the next package
C23_Witness ==
  /\ configuration.skip_unavailable
  /\ at.pc = "package" /\ at.cur = "install" /\ at.package = 1 /\ at.n = 2
  /\ calls = <<call("install", FALSE)>>
  /\ result = "none"

\* C24: once the world update command (emerge --update --deep --newuse @world)
\* has been run, no package install or remove command is run any more: the
\* update comes after the package operations of the job
C24_WorldUpdateAfterOperations ==
  [][configuration.gentoo_world_update = "true" =>
       ~(/\ at.pc = "package"
         /\ \E i \in DOMAIN calls' : calls'[i].cmd \in {"install", "remove"})
    ]_vars

\* C25: the commands update_db runs, by sync_method: none for "none"; one
\* emerge --sync for "sync"; for "webrsync" emerge-webrsync alone when it
\* succeeds, and emerge-webrsync then emerge --sync when it failed; for any
\* other value no command, and a ValueError leaves run().
C25_UpdateDbBySyncMethod ==
  [][(at.pc = "update_db" /\ configuration'.sync_method # "unread") =>
       LET m == configuration'.sync_method
           cmds == [i \in DOMAIN calls' |-> calls'[i].cmd]
       IN /\ (m = "none" => calls' = <<>> /\ result' = "none")
          /\ (m = "sync" => cmds = <<"emerge --sync">>)
          /\ (m = "webrsync" =>
                \/ calls' = <<call("emerge-webrsync", TRUE)>>
                \/ (/\ cmds = <<"emerge-webrsync", "emerge --sync">>
                    /\ ~calls'[1].ok))
          /\ (m \notin {"none", "sync", "webrsync"} =>
                (calls' = <<>> /\ result' = "ValueError" /\ at'.pc = "returned"))
          /\ (result' = "ValueError" => m \notin {"none", "sync", "webrsync"})
    ]_vars

\* C25 witness: sync_method "webrsync", emerge-webrsync failed and emerge --sync
\* was run as the fallback
C25_Witness ==
  /\ configuration.sync_method = "webrsync"
  /\ at.pc = "update_system"
  /\ calls = <<call("emerge-webrsync", FALSE), call("emerge --sync", TRUE)>>

\* C27: with skip_unavailable set, under an "install" or "remove" key a
\* package whose command or script fails never ends the list or the entry:
\* the next package of the list, or the rest of the entry, is still attempted,
\* as under "try_install" / "try_remove"
C27_InstallLikeTryInstall ==
  [][(configuration.skip_unavailable /\ at.pc = "package") =>
       at'.pc = IF at.package + 1 = at.n THEN "key_done" ELSE "package"
    ]_vars

\* C29: the counters stay within 0 <= completed_packages <= total_packages;
\* every progress value is a fraction over a positive total within [0, 1];
\* the values reported never decrease; and when run() returns None the last
\* value reported is 1.0
C29_ProgressCounters ==
  [][/\ 0 <= completed_packages' /\ completed_packages' <= total_packages'
     /\ (reported' # <<>> =>
           /\ reported'[2] > 0
           /\ 0 <= reported'[1] /\ reported'[1] <= reported'[2])
     /\ ((reported # <<>> /\ reported' # <<>>) =>
           reported[1] * reported'[2] <= reported'[1] * reported[2])
     /\ ((at'.pc = "returned" /\ result' = "None") => reported' = <<1, 1>>)
    ]_vars

=============================================================================
